---- MODULE Spec2Model ----
(***************************************************************************)
(* State-machine model of the Dataverse -> SQLite sync engine              *)
(* (akvo/igh-data-sync): SCD2 upsert of entity rows, option-set lookup     *)
(* and junction snapshots, driven by the per-entity sync loop.             *)
(*                                                                         *)
(* One entity table ("accounts", business key "accountid") with one        *)
(* option-set field ("categories") is modelled.  JSON values are modelled  *)
(* as sequences of integers: None / "" is <<>>, a scalar v is <<v>>, a     *)
(* delimited string "1,2" or "A;B" is the sequence of its parts.  A JSON   *)
(* key is the sequence of its parts, e.g. <<"@odata.", "etag">> or         *)
(* <<"categories", "@OData.Community.Display.V1.FormattedValue">>.  A      *)
(* Python dict is an insertion-ordered sequence of <<key, value>> pairs.   *)
(***************************************************************************)
EXTENDS Integers, Sequences, FiniteSets, TLC

\* ---------------------------------------------------------------- bounds
NumEtags == 2
MaxTime == 2
MaxRuns == 2
MaxRows == 3

\* SQL NULL in a timestamp column (Python None)
NULL == 0

\* Business keys and names of the records upstream
Keys == {1, 2}
Names == {1}
Etags == 1..NumEtags
Times == 1..MaxTime

\* Python None / empty string as a JSON value
None == <<>>

\* ------------------------------------------------------- names and keys
ODataPrefix == "@odata."
FormattedValueSuffix == "@OData.Community.Display.V1.FormattedValue"

PrimaryKey == "accountid"
EntityName == "accounts"
FieldName == "categories"

KeyEtag == <<ODataPrefix, "etag">>
KeyId == <<PrimaryKey>>
KeyName == <<"name">>
KeyCats == <<FieldName>>
KeyCatsFV == <<FieldName, FormattedValueSuffix>>
KeyModifiedon == <<"modifiedon">>
KeyExtra == <<"extra">>

\* The keys in the order Python compares the strings they stand for
\* ('@' < 'a' < 'c' < 'e' < 'm' < 'n'; a proper prefix sorts first).
SortedKeys == <<KeyEtag, KeyId, KeyCats, KeyCatsFV, KeyExtra, KeyModifiedon, KeyName>>

\* Columns of the entity table as created from the first metadata.
BaseCols == {PrimaryKey, "name", FieldName}

\* ------------------------------------------------------- dict helpers
DictKeys(d) == {d[i][1] : i \in 1..Len(d)}

\* dict.get(key): the value, or None when the key is absent
DictGet(d, key) ==
    IF key \in DictKeys(d)
    THEN d[CHOOSE i \in 1..Len(d) : d[i][1] = key][2]
    ELSE None

Reverse(s) == [i \in 1..Len(s) |-> s[Len(s) + 1 - i]]

\* str.startswith / str.endswith on a key made of parts
StartsWith(key, part) == Len(key) >= 1 /\ key[1] = part
EndsWith(key, part) == Len(key) >= 1 /\ key[Len(key)] = part

\* key.replace(part, "")
RemovePart(key, part) == SelectSeq(key, LAMBDA p : p # part)

\* ------------------------------------------------ json canonicalisation
\* {k: v for k, v in api_record.items() if not k.startswith("@odata.")}
CleanNoStrip(api_record) == api_record

CleanRecord(api_record) ==
    SelectSeq(api_record, LAMBDA kv : ~StartsWith(kv[1], ODataPrefix))

\* json.dumps(d, sort_keys=True): the pairs in ascending key order
JsonDumpsUnsorted(d) == d

JsonDumps(d) ==
    LET present == SelectSeq(SortedKeys, LAMBDA k : k \in DictKeys(d))
    IN  [i \in 1..Len(present) |-> <<present[i], DictGet(d, present[i])>>]

\* ------------------------------------------------- option-set detector
Min(a, b) == IF a <= b THEN a ELSE b

\* dict built by assigning pairs[i][1] -> pairs[i][2] in order: a repeated
\* key keeps its first position and takes the last value assigned.
DictFromPairs(pairs) ==
    LET firsts == SelectSeq([i \in 1..Len(pairs) |-> i],
                     LAMBDA i : \A j \in 1..(i - 1) : pairs[j][1] # pairs[i][1])
        lastOf(k) == CHOOSE i \in 1..Len(pairs) :
                        /\ pairs[i][1] = k
                        /\ \A j \in (i + 1)..Len(pairs) : pairs[j][1] # k
    IN  [n \in 1..Len(firsts) |->
            <<pairs[firsts[n]][1], pairs[lastOf(pairs[firsts[n]][1])][2]>>]

\* ";" in formatted_value, or "," in raw_value
IsMultiSelect(raw_value, formatted_value) ==
    Len(formatted_value) >= 2 \/ Len(raw_value) >= 2

\* codes zipped with labels (multi-select) or {int(raw): formatted}
ExtractCodesAndLabels(raw_value, formatted_value, is_multi_select) ==
    IF is_multi_select
    THEN DictFromPairs([i \in 1..Min(Len(raw_value), Len(formatted_value)) |->
                            <<raw_value[i], formatted_value[i]>>])
    ELSE <<<<raw_value[1], formatted_value[1]>>>>

\* One annotated key of the record: the detected option set, if any.
DetectKey(api_record, key) ==
    LET field_name == RemovePart(key, FormattedValueSuffix)
        raw_value == DictGet(api_record, field_name)
        formatted_value == DictGet(api_record, key)
        is_multi == IsMultiSelect(raw_value, formatted_value)
        cl == ExtractCodesAndLabels(raw_value, formatted_value, is_multi)
    IN  IF raw_value = None \/ formatted_value = None \/ cl = <<>>
        THEN <<>>
        ELSE <<[field_name |-> field_name, is_multi_select |-> is_multi,
                codes_and_labels |-> cl]>>

RECURSIVE DetectFrom(_, _)
DetectFrom(api_record, i) ==
    IF i > Len(api_record) THEN <<>>
    ELSE (IF EndsWith(api_record[i][1], FormattedValueSuffix)
          THEN DetectKey(api_record, api_record[i][1])
          ELSE <<>>) \o DetectFrom(api_record, i + 1)

\* The detected option sets of a record, in key order.
DetectFromRecord(api_record) == DetectFrom(api_record, 1)

IsDetected(detected, field) ==
    \E i \in 1..Len(detected) : detected[i].field_name = field

DetectedFor(detected, field) ==
    detected[CHOOSE i \in 1..Len(detected) : detected[i].field_name = field]

\* ------------------------------------------------------------ SCD2 upsert
\* A column of a row; a column the INSERT did not name is NULL.
ColValue(row, col) == IF col \in DOMAIN row.cols THEN row.cols[col] ELSE None

\* SELECT row_id ... WHERE business_key = ? AND valid_to IS NULL; fetchone().
\* 0 stands for "no row".
FindActive(tbl, business_key, value) ==
    LET hit(i) == /\ value # None
                  /\ ColValue(tbl[i], business_key) = value
                  /\ tbl[i].valid_to = NULL
    IN  IF \E i \in 1..Len(tbl) : hit(i)
        THEN CHOOSE i \in 1..Len(tbl) : hit(i) /\ \A j \in 1..(i - 1) : ~hit(j)
        ELSE 0

\* UPDATE ... SET valid_to = ? WHERE row_id = ?
CloseNothing(tbl, row_id, new_valid_from) == tbl

CloseRow(tbl, row_id, new_valid_from) ==
    [tbl EXCEPT ![row_id].valid_to = new_valid_from]

\* An UPDATE of sync_time that leaves out "WHERE row_id = ?"
TouchAllRows(tbl, row_id, sync_time) ==
    [i \in 1..Len(tbl) |-> [tbl[i] EXCEPT !.sync_time = sync_time]]

\* UPDATE ... SET sync_time = ? WHERE row_id = ?
TouchRow(tbl, row_id, sync_time) ==
    [tbl EXCEPT ![row_id].sync_time = sync_time]

\* INSERT INTO table (columns..., valid_to) VALUES (..., NULL)
NewRow(record) ==
    [cols |-> record.cols, json_response |-> record.json_response,
     sync_time |-> record.sync_time, valid_from |-> record.valid_from,
     valid_to |-> NULL]

\* cursor.execute("INSERT INTO ..."): the row gets the next row_id
InsertOrReplace(tbl, row) ==
    SelectSeq(tbl, LAMBDA r : ColValue(r, PrimaryKey) # ColValue(row, PrimaryKey))
    \o <<row>>

InsertRow(tbl, row) == Append(tbl, row)

\* old_json_response == new_json_response
SameResponseAlways(old_json_response, new_json_response) == TRUE

SameResponse(old_json_response, new_json_response) ==
    old_json_response = new_json_response

\* sqlite raises OperationalError when a named column is not in the table
InsertRaises(record, table_cols) == ~(DOMAIN record.cols \subseteq table_cols)

SCD2Result(is_new, created, valid_from, bk) ==
    [is_new_entity |-> is_new, version_created |-> created,
     valid_from |-> valid_from, business_key_value |-> bk]

\* upsert_scd2: the table afterwards, the SCD2Result, and whether the INSERT
\* raised (the UPDATE that closed the old row has then already been executed).
UpsertScd2(tbl, business_key, record, table_cols) ==
    LET bk == IF business_key \in DOMAIN record.cols
              THEN record.cols[business_key] ELSE None
        row_id == FindActive(tbl, business_key, bk)
        res(n, c) == SCD2Result(n, c, record.valid_from, bk)
    IN  IF row_id = 0
        THEN IF InsertRaises(record, table_cols)
             THEN [table |-> tbl, raised |-> TRUE, result |-> res(TRUE, TRUE)]
             ELSE [table |-> InsertRow(tbl, NewRow(record)), raised |-> FALSE,
                   result |-> res(TRUE, TRUE)]
        ELSE IF SameResponse(tbl[row_id].json_response, record.json_response)
        THEN [table |-> TouchRow(tbl, row_id, record.sync_time),
              raised |-> FALSE, result |-> res(FALSE, FALSE)]
        ELSE LET closed == CloseRow(tbl, row_id, record.valid_from)
             IN  IF InsertRaises(record, table_cols)
                 THEN [table |-> closed, raised |-> TRUE,
                       result |-> res(FALSE, TRUE)]
                 ELSE [table |-> InsertRow(closed, NewRow(record)),
                       raised |-> FALSE, result |-> res(FALSE, TRUE)]

\* ------------------------------------------- option-set lookup, junction
\* SELECT label FROM _optionset_<field> WHERE code = ?: the position of the
\* row of the code, 0 when there is none
FindCode(os, code) ==
    IF \E i \in 1..Len(os) : os[i].code = code
    THEN CHOOSE i \in 1..Len(os) :
            os[i].code = code /\ \A j \in 1..Len(os) : os[j].code = code => i <= j
    ELSE 0

\* INSERT OR REPLACE INTO _optionset_<field>
ReplaceOptionSetValue(os, code, label, first_seen) ==
    SelectSeq(os, LAMBDA r : r.code # code)
    \o <<[code |-> code, label |-> label, first_seen |-> first_seen]>>

\* upsert_option_set_value on _optionset_<field>, a sequence of rows
UpsertOptionSetValue(os, code, label, first_seen) ==
    LET existing == FindCode(os, code)
    IN  IF existing # 0
        THEN IF os[existing].label # label
             THEN [os EXCEPT ![existing].label = label]
             ELSE os
        ELSE Append(os, [code |-> code, label |-> label,
                         first_seen |-> first_seen])

RECURSIVE UpsertOptionSetValues(_, _, _, _)
UpsertOptionSetValues(os, codes_and_labels, i, first_seen) ==
    IF i > Len(codes_and_labels) THEN os
    ELSE UpsertOptionSetValues(
            UpsertOptionSetValue(os, codes_and_labels[i][1],
                                 codes_and_labels[i][2], first_seen),
            codes_and_labels, i + 1, first_seen)

\* UPDATE junction SET valid_to = ? WHERE entity_id = ? AND valid_to IS NULL
CloseJunctionNone(jn, entity_id, valid_from) == jn

CloseJunction(jn, entity_id, valid_from) ==
    [i \in 1..Len(jn) |->
        IF jn[i].entity_id = entity_id /\ jn[i].valid_to = NULL
        THEN [jn[i] EXCEPT !.valid_to = valid_from]
        ELSE jn[i]]

\* snapshot_junction_relationships: close the active rows of the entity,
\* then insert one active row per option code
SnapshotJunctionRelationships(jn, entity_id, option_codes, valid_from) ==
    CloseJunction(jn, entity_id, valid_from) \o
    [i \in 1..Len(option_codes) |->
        [entity_id |-> entity_id, option_code |-> option_codes[i],
         valid_from |-> valid_from, valid_to |-> NULL]]

\* The branch of populate_detected_option_sets that decides on a snapshot
SnapshotAlways(scd2_result) == TRUE

SnapshotWanted(scd2_result) == scd2_result.version_created

\* populate_detected_option_sets for one detected field (scd2_result given)
PopulateOne(aux, option_set, entity_id, scd2_result, first_seen) ==
    LET os == UpsertOptionSetValues(aux.optionset, option_set.codes_and_labels,
                                    1, first_seen)
        codes == [i \in 1..Len(option_set.codes_and_labels) |->
                    option_set.codes_and_labels[i][1]]
    IN  IF option_set.is_multi_select /\ SnapshotWanted(scd2_result)
        THEN [optionset |-> os,
              junction |-> SnapshotJunctionRelationships(
                              aux.junction, entity_id, codes,
                              scd2_result.valid_from)]
        ELSE [optionset |-> os, junction |-> aux.junction]

RECURSIVE PopulateFrom(_, _, _, _, _, _)
PopulateFrom(aux, detected, i, entity_id, scd2_result, first_seen) ==
    IF i > Len(detected) THEN aux
    ELSE PopulateFrom(
            PopulateOne(aux, detected[i], entity_id, scd2_result, first_seen),
            detected, i + 1, entity_id, scd2_result, first_seen)

\* populate_detected_option_sets: aux = [optionset, junction]
PopulateDetectedOptionSets(aux, detected, entity_id, scd2_result, first_seen) ==
    PopulateFrom(aux, detected, 1, entity_id, scd2_result, first_seen)

\* ------------------------------------------------ one record of the batch
\* STEP 2 of upsert_batch: the schema columns present in the record, except
\* a column detected as a multi-select option set
ProjectColumns(schema_cols, api_record, detected) ==
    LET kept == {c \in schema_cols :
                    /\ <<c>> \in DictKeys(api_record)
                    /\ ~(IsDetected(detected, <<c>>) /\
                         DetectedFor(detected, <<c>>).is_multi_select)}
    IN  [c \in kept |-> DictGet(api_record, <<c>>)]

\* api_record.get("modifiedon") or now
ValidFromOf(api_record, now_) ==
    LET m == DictGet(api_record, KeyModifiedon)
    IN  IF m # None THEN m[1] ELSE now_

\* The record handed to upsert_scd2
BuildRecord(schema_cols, api_record, detected, now_) ==
    [cols |-> ProjectColumns(schema_cols, api_record, detected),
     json_response |-> JsonDumps(CleanRecord(api_record)),
     sync_time |-> now_,
     valid_from |-> ValidFromOf(api_record, now_)]

\* -------------------------------------------------- sync state and log
\* Wall-clock columns that are written and never read (last_sync_time,
\* start_time, end_time) and the error text are left out of the rows.
\* set_state: INSERT OR IGNORE the row, then UPDATE its state
\* A set_state that replaces the whole _sync_state row, and with it the
\* watermark, unless the new state is completed
ReplaceState(ss, entity, state) ==
    IF entity \in DOMAIN ss /\ state = "completed"
    THEN [ss EXCEPT ![entity].state = state]
    ELSE (entity :> [state |-> state, last_timestamp |-> NULL,
                     records_count |-> 0]) @@ ss

SetState(ss, entity, state) ==
    IF entity \in DOMAIN ss
    THEN [ss EXCEPT ![entity].state = state]
    ELSE (entity :> [state |-> state, last_timestamp |-> NULL,
                     records_count |-> 0]) @@ ss

\* get_last_sync_timestamp
GetLastSyncTimestamp(ss, entity) ==
    IF entity \in DOMAIN ss THEN ss[entity].last_timestamp ELSE NULL

\* update_sync_timestamp: INSERT OR REPLACE the whole row
UpdateSyncTimestamp(ss, entity, timestamp, count) ==
    (entity :> [state |-> "completed", last_timestamp |-> timestamp,
                records_count |-> count]) @@ ss

\* start_sync: the new _sync_log row (its id is its position)
StartLog(log, entity) ==
    Append(log, [entity_name |-> entity, status |-> "in_progress",
                 records_added |-> 0, records_updated |-> 0])

\* complete_sync / fail_sync: UPDATE _sync_log ... WHERE id = ?
CompleteLog(log, log_id, n_added, n_updated) ==
    [log EXCEPT ![log_id] = [@ EXCEPT !.status = "completed",
                                      !.records_added = n_added,
                                      !.records_updated = n_updated]]

\* A fail_sync that leaves the _sync_log row as it is
KeepLog(log, log_id) == log

FailLog(log, log_id) == [log EXCEPT ![log_id].status = "failed"]

\* ----------------------------------------------------------- the server
\* Option selections a record may carry: none, one code, several codes.
Selections == {<<>>, <<2>>, <<1, 2>>}

\* The display label the server sends for an option code
LabelOf(code) == 10 + code

\* The record the server returns for business key k.  The etag differs from
\* fetch to fetch and the key order is the server's choice.
ApiRecord(k, rec, etag, reversed, has_modifiedon, has_extra) ==
    LET d == <<<<KeyEtag, <<etag>>>>, <<KeyId, <<k>>>>,
               <<KeyName, <<rec.name>>>>, <<KeyCats, rec.cats>>>>
             \o (IF rec.cats # None
                 THEN <<<<KeyCatsFV,
                          [i \in 1..Len(rec.cats) |-> LabelOf(rec.cats[i])]>>>>
                 ELSE <<>>)
             \o (IF has_modifiedon
                 THEN <<<<KeyModifiedon, <<rec.mod>>>>>> ELSE <<>>)
             \o (IF has_extra THEN <<<<KeyExtra, <<rec.name>>>>>> ELSE <<>>)
    IN  IF reversed THEN Reverse(d) ELSE d

\* ---------------------------------------------------------------- state
VARIABLES
    server,      \* business key -> [name, cats, mod]: the records upstream
    schemaCols,  \* column names of the schema parsed from $metadata
    tableCols,   \* column names of the entity table as it was created
    now,         \* the clock (datetime.now and the server's modifiedon)
    table,       \* the entity table: sequence of rows, row_id = position
    junction,    \* _junction_accounts_categories: sequence of rows
    optionset,   \* _optionset_categories: sequence of rows
    sync_state,  \* _sync_state: entity_name -> row
    sync_log,    \* _sync_log: sequence of rows, id = position
    pc,          \* position of sync_entity: "idle" or "upserting"
    records,     \* the fetched records upsert_batch iterates over
    idx,         \* the position of upsert_batch in records
    added,       \* upsert_batch's counter of new entities
    updated,     \* upsert_batch's counter of new versions
    filter_sent, \* the timestamp of the filter "modifiedon gt <ts>" the
                 \* latest sync_entity call fetched with, NULL for no filter
    lastCall,    \* <<[record, result, raised]>> of the upsert_scd2 call the
                 \* latest step made, <<>> when it made none
    changed,     \* upstream changed since the latest fetch
    noop,        \* the running sync started after a completed sync with no
                 \* upstream change in between
    cfg,         \* what run_sync_workflow is called with and meets upstream
    rpc,         \* position of run_sync_workflow
    differences, \* the differences validate_schema_before_sync collected
    valid_entities,      \* entities found in $metadata, in config order
    entities_to_create,  \* valid entities that have no table yet
    tablesCreated,       \* names of the tables the run has created
    fetched,     \* entities whose records the run has requested
    upserted,    \* entities whose table the run has written to
    eidx,        \* position of _sync_unfiltered_entities in its list
    totals,      \* <<total_added, total_updated>>
    failed_entities,     \* entities appended to failed_entities, in order
    results,     \* the dict run_sync_workflow returned, <<>> before it has
    requested,   \* <<entity, id>>: the records the run has asked the server for
    stored,      \* [entity, id, fk]: the rows the run has written
    capacity,    \* max_concurrent of the DataverseClient
    permits,     \* the value of the client's semaphore
    calls,       \* task -> the client call the task is in
    pages,       \* the pages the server holds for the entity, in order
    given,       \* the arguments and the database rows a function called on
                 \* its own is given, <<>> when there is no such call
    returned     \* what that call returned, <<>> before it has

vars == <<server, schemaCols, tableCols, now, table, junction, optionset,
          sync_state, sync_log, pc, records, idx, added, updated, filter_sent,
          lastCall, changed, noop, cfg, rpc, differences, valid_entities,
          entities_to_create, tablesCreated, fetched, upserted, eidx, totals,
          failed_entities, results, requested, stored, capacity, permits,
          calls, pages, given, returned>>

\* The state of the DataverseClient and of the calls made on it
clientVars == <<capacity, permits, calls, pages>>

\* No DataverseClient has been constructed
ClientOff ==
    /\ capacity = 0
    /\ permits = 0
    /\ calls = <<>>
    /\ pages = <<>>

\* The state of a function called on its own
directVars == <<given, returned>>

\* No function is called on its own
DirectOff ==
    /\ given = <<>>
    /\ returned = <<>>

\* The state of run_sync_workflow
orchVars == <<cfg, rpc, differences, valid_entities, entities_to_create,
              tablesCreated, fetched, upserted, eidx, totals, failed_entities,
              results, requested, stored>>

\* run_sync_workflow has not been called
OrchOff ==
    /\ cfg = <<>>
    /\ rpc = "off"
    /\ differences = <<>>
    /\ valid_entities = <<>>
    /\ entities_to_create = <<>>
    /\ tablesCreated = {}
    /\ fetched = {}
    /\ upserted = {}
    /\ eidx = 1
    /\ totals = <<0, 0>>
    /\ failed_entities = <<>>
    /\ results = <<>>
    /\ requested = {}
    /\ stored = {}

runVars == <<pc, records, idx, added, updated, filter_sent>>
dbVars == <<table, junction, optionset>>

Init ==
    /\ server = <<>>
    /\ schemaCols \in {BaseCols, BaseCols \cup {"modifiedon"}}
    /\ tableCols = schemaCols
    /\ now = 1
    /\ table = <<>>
    /\ junction = <<>>
    /\ optionset = <<>>
    /\ sync_state = <<>>
    /\ sync_log = <<>>
    /\ pc = "idle"
    /\ filter_sent = NULL
    /\ DirectOff
    /\ records = <<>>
    /\ idx = 1
    /\ added = 0
    /\ updated = 0
    /\ lastCall = <<>>
    /\ changed = FALSE
    /\ noop = FALSE
    /\ OrchOff
    /\ ClientOff

\* ---------------------------------------------------------- environment
Tick ==
    /\ now < MaxTime
    /\ now' = now + 1
    /\ lastCall' = <<>>
    /\ UNCHANGED <<server, schemaCols, tableCols, dbVars, sync_state,
                   sync_log, runVars, changed, noop>>
    /\ UNCHANGED orchVars
    /\ UNCHANGED clientVars
    /\ UNCHANGED directVars

\* A record is created or edited upstream; the server stamps modifiedon when
\* the entity has that attribute.  The fetch is a snapshot, so a change made
\* while a run upserts acts like one made right after the run: changes are
\* taken between runs.
ServerChange(k, n, c) ==
    /\ pc = "idle"
    /\ LET rec == [name |-> n, cats |-> c,
                   mod |-> IF "modifiedon" \in schemaCols THEN now ELSE NULL]
       IN  /\ k \in DOMAIN server => server[k] # rec
           /\ server' = (k :> rec) @@ server
    /\ changed' = TRUE
    /\ lastCall' = <<>>
    /\ UNCHANGED <<schemaCols, tableCols, now, dbVars, sync_state, sync_log,
                   runVars, noop>>
    /\ UNCHANGED orchVars
    /\ UNCHANGED clientVars
    /\ UNCHANGED directVars

\* The entity gains a column upstream between two runs; the local table is
\* not altered (tables are only created when missing).
MetadataAddsColumn ==
    /\ pc = "idle"
    /\ "extra" \notin schemaCols
    /\ schemaCols' = schemaCols \cup {"extra"}
    /\ changed' = TRUE
    /\ lastCall' = <<>>
    /\ UNCHANGED <<server, tableCols, now, dbVars, sync_state, sync_log,
                   runVars, noop>>
    /\ UNCHANGED orchVars
    /\ UNCHANGED clientVars
    /\ UNCHANGED directVars

\* ------------------------------------------------------------ sync_entity
HasModifiedon == "modifiedon" \in schemaCols

LastTimestamp == GetLastSyncTimestamp(sync_state, EntityName)

\* A sync_entity that never builds a filter
FilterNever == FALSE

\* filter_query is set: a last_timestamp is stored and the schema has
\* a modifiedon column
FilterOn == LastTimestamp # NULL /\ HasModifiedon

\* filter_query: "modifiedon gt <last_timestamp>", held as its timestamp, or
\* None
FilterQuery == IF FilterOn THEN LastTimestamp ELSE NULL

RECURSIVE SortedSeq(_)
SortedSeq(S) ==
    IF S = {} THEN <<>>
    ELSE LET m == CHOOSE x \in S : \A y \in S : x <= y
         IN  <<m>> \o SortedSeq(S \ {m})

KeysInOrder == SortedSeq(Keys)

\* fetch_all_pages ordered by the business key, "modifiedon gt <ts>" applied
FetchAllPages(srv, filter_on, last_timestamp) ==
    LET ks == SelectSeq(KeysInOrder,
                 LAMBDA k : /\ k \in DOMAIN srv
                            /\ (filter_on => srv[k].mod > last_timestamp))
    IN  [i \in 1..Len(ks) |->
            [k |-> ks[i], name |-> srv[ks[i]].name, cats |-> srv[ks[i]].cats,
             mod |-> srv[ks[i]].mod]]

Fetched == FetchAllPages(server, FilterQuery # NULL, FilterQuery)

\* The fetched record would add a row to the entity table (used only to
\* keep the table within MaxRows)
WouldInsert(rec) ==
    LET api_record == ApiRecord(rec.k, rec, CHOOSE e \in Etags : TRUE, FALSE,
                                HasModifiedon, "extra" \in schemaCols)
        record == BuildRecord(schemaCols, api_record,
                              DetectFromRecord(api_record), now)
        row_id == FindActive(table, PrimaryKey, <<rec.k>>)
    IN  row_id = 0 \/ table[row_id].json_response # record.json_response

CanStart ==
    /\ pc = "idle"
    /\ Len(sync_log) < MaxRuns
    /\ Len(table) + Cardinality({i \in 1..Len(Fetched) :
                                    WouldInsert(Fetched[i])}) <= MaxRows

Completed == EntityName \in DOMAIN sync_state
             /\ sync_state[EntityName].state = "completed"

\* start_sync, the fetch returns no record: complete_sync(0, 0)
SyncNoRecords ==
    /\ CanStart
    /\ Fetched = <<>>
    /\ sync_state' = SetState(SetState(sync_state, EntityName, "in_progress"),
                              EntityName, "completed")
    /\ sync_log' = CompleteLog(StartLog(sync_log, EntityName),
                               Len(sync_log) + 1, 0, 0)
    /\ filter_sent' = FilterQuery
    /\ changed' = FALSE
    /\ noop' = (Completed /\ ~changed)
    /\ lastCall' = <<>>
    /\ UNCHANGED <<server, schemaCols, tableCols, now, dbVars, pc, records,
                   idx, added, updated>>
    /\ UNCHANGED orchVars
    /\ UNCHANGED clientVars
    /\ UNCHANGED directVars

\* start_sync, the fetch returns records: upsert_batch begins
SyncFetch ==
    /\ CanStart
    /\ Fetched # <<>>
    /\ sync_state' = SetState(sync_state, EntityName, "in_progress")
    /\ sync_log' = StartLog(sync_log, EntityName)
    /\ pc' = "upserting"
    /\ records' = Fetched
    /\ idx' = 1
    /\ added' = 0
    /\ updated' = 0
    /\ filter_sent' = FilterQuery
    /\ changed' = FALSE
    /\ noop' = (Completed /\ ~changed)
    /\ lastCall' = <<>>
    /\ UNCHANGED <<server, schemaCols, tableCols, now, dbVars>>
    /\ UNCHANGED orchVars
    /\ UNCHANGED clientVars
    /\ UNCHANGED directVars

\* The modifiedon value of the record fetched last
LastModifiedon(recs) == recs[Len(recs)].mod

\* max of the modifiedon values of the fetched records
MaxModifiedon(recs) ==
    CHOOSE m \in {recs[i].mod : i \in 1..Len(recs)} :
        \A i \in 1..Len(recs) : recs[i].mod <= m

\* _update_sync_timestamp: only when some record carries modifiedon
UpdateTimestampFromRecords(ss, recs, has_modifiedon) ==
    IF recs # <<>> /\ has_modifiedon
    THEN UpdateSyncTimestamp(ss, EntityName, MaxModifiedon(recs), Len(recs))
    ELSE ss

\* One iteration of upsert_batch's loop on api_record; after the last record
\* sync_entity stores the timestamp and completes.  If the INSERT raises,
\* sync_entity's handler runs fail_sync, whose commit makes the UPDATE that
\* closed the old row permanent.
UpsertRecord(etag, reversed) ==
    /\ pc = "upserting"
    /\ idx <= Len(records)
    /\ LET rec == records[idx]
           api_record == ApiRecord(rec.k, rec, etag, reversed, HasModifiedon,
                                   "extra" \in schemaCols)
           entity_id == DictGet(api_record, KeyId)
           detected == DetectFromRecord(api_record)
           record == BuildRecord(schemaCols, api_record, detected, now)
           up == UpsertScd2(table, PrimaryKey, record, tableCols)
           aux == IF detected # <<>> /\ ~up.raised
                  THEN PopulateDetectedOptionSets(
                           [optionset |-> optionset, junction |-> junction],
                           detected, entity_id, up.result, now)
                  ELSE [optionset |-> optionset, junction |-> junction]
           n_added == IF up.result.is_new_entity THEN added + 1 ELSE added
           n_updated == IF ~up.result.is_new_entity /\ up.result.version_created
                        THEN updated + 1 ELSE updated
       IN  /\ entity_id # None
           /\ table' = up.table
           /\ optionset' = aux.optionset
           /\ junction' = aux.junction
           /\ lastCall' = <<[api_record |-> api_record, record |-> record,
                             result |-> up.result, raised |-> up.raised]>>
           /\ IF up.raised
              THEN /\ sync_state' = SetState(sync_state, EntityName, "failed")
                   /\ sync_log' = FailLog(sync_log, Len(sync_log))
                   /\ pc' = "idle"
                   /\ records' = <<>>
                   /\ idx' = 1
                   /\ added' = 0
                   /\ updated' = 0
              ELSE IF idx < Len(records)
              THEN /\ idx' = idx + 1
                   /\ added' = n_added
                   /\ updated' = n_updated
                   /\ UNCHANGED <<sync_state, sync_log, pc, records>>
              ELSE /\ sync_state' = SetState(
                          UpdateTimestampFromRecords(sync_state, records,
                                                     HasModifiedon),
                          EntityName, "completed")
                   /\ sync_log' = CompleteLog(sync_log, Len(sync_log),
                                              n_added, n_updated)
                   /\ pc' = "idle"
                   /\ records' = <<>>
                   /\ idx' = 1
                   /\ added' = 0
                   /\ updated' = 0
    /\ UNCHANGED <<server, schemaCols, tableCols, now, filter_sent, changed,
                   noop>>
    /\ UNCHANGED orchVars
    /\ UNCHANGED clientVars
    /\ UNCHANGED directVars

Next ==
    \/ Tick
    \/ \E k \in Keys, n \in Names, c \in Selections : ServerChange(k, n, c)
    \/ MetadataAddsColumn
    \/ SyncNoRecords
    \/ SyncFetch
    \/ \E etag \in Etags, reversed \in BOOLEAN : UpsertRecord(etag, reversed)

Spec == Init /\ [][Next]_vars

\* ------------------------------------------------------------ properties
BusinessKey(row) == ColValue(row, PrimaryKey)

RowsOf(k) == {i \in 1..Len(table) : BusinessKey(table[i]) = <<k>>}

ActiveRowsOf(k) == {i \in RowsOf(k) : table[i].valid_to = NULL}

JunctionRowsOf(jn, entity_id) ==
    {i \in 1..Len(jn) : jn[i].entity_id = entity_id}

ActiveJunctionRowsOf(jn, entity_id) ==
    {i \in JunctionRowsOf(jn, entity_id) : jn[i].valid_to = NULL}

\* The step is an iteration of upsert_batch whose upsert_scd2 returned
UpsertReturned == lastCall' # <<>> /\ ~lastCall'[1].raised

\* C1: for every business key at most one row of the entity table has
\* valid_to NULL.
AtMostOneActive == \A k \in Keys : Cardinality(ActiveRowsOf(k)) <= 1

\* A key has a closed version and an active one, next to a row of another key
AtMostOneActiveWitness ==
    \E k \in Keys :
        /\ Cardinality(RowsOf(k)) >= 2
        /\ Cardinality(ActiveRowsOf(k)) = 1
        /\ \E j \in Keys \ {k} : RowsOf(j) # {}

\* C2: every row closed at t has a row of the same business key whose
\* valid_from is t (history has no gaps).
TemporalContiguity ==
    \A i \in 1..Len(table) :
        table[i].valid_to # NULL =>
            \E j \in 1..Len(table) :
                /\ BusinessKey(table[j]) = BusinessKey(table[i])
                /\ table[j].valid_from = table[i].valid_to

SameButSyncTime(old, new) == new = [old EXCEPT !.sync_time = new.sync_time]

LastLog(log) == log[Len(log)]

\* C4: a run that follows a completed run with nothing changed upstream
\* in between inserts no row and closes none, changes nothing but the
\* sync_time of active rows, leaves the junction table alone and reports
\* 0 added and 0 updated.
NoOpIdempotence ==
    [][noop' =>
        /\ Len(table') = Len(table)
        /\ \A i \in 1..Len(table) :
              /\ SameButSyncTime(table[i], table'[i])
              /\ table[i].valid_to # NULL => table'[i] = table[i]
        /\ junction' = junction
        /\ added' = 0 /\ updated' = 0
        /\ LastLog(sync_log').status # "failed"
        /\ LastLog(sync_log').records_added = 0
        /\ LastLog(sync_log').records_updated = 0]_vars

\* The second run has completed after re-presenting a stored record later
NoOpIdempotenceWitness ==
    /\ noop /\ pc = "idle" /\ Len(sync_log) >= 2
    /\ LastLog(sync_log).status = "completed"
    /\ \E i \in 1..Len(table) :
          table[i].valid_to = NULL /\ table[i].sync_time > table[i].valid_from

\* The (key, value) pairs of a JSON object whose key does not begin with
\* "@odata."
DataPairs(d) ==
    {d[i] : i \in {j \in 1..Len(d) : ~StartsWith(d[j][1], ODataPrefix)}}

\* C5: presenting a record that differs from the stored payload of the
\* key's active row only in keys that begin with "@odata." creates no new
\* version.
ODataKeysIgnored ==
    [][UpsertReturned =>
        \A i \in 1..Len(table) :
            (/\ BusinessKey(table[i]) = lastCall'[1].result.business_key_value
             /\ table[i].valid_to = NULL
             /\ DataPairs(table[i].json_response)
                    = DataPairs(lastCall'[1].api_record))
            => /\ ~lastCall'[1].result.version_created
               /\ Len(table') = Len(table)
               /\ table'[i].valid_to = NULL]_vars

\* A record carrying an "@odata." key met an active row holding the same
\* data and none of those keys, at a later time, and no version was created
ODataKeysIgnoredWitness ==
    /\ lastCall # <<>>
    /\ ~lastCall[1].raised
    /\ ~lastCall[1].result.version_created
    /\ KeyEtag \in DictKeys(lastCall[1].api_record)
    /\ \E i \in 1..Len(table) :
          /\ BusinessKey(table[i]) = lastCall[1].result.business_key_value
          /\ table[i].valid_to = NULL
          /\ table[i].valid_from < lastCall[1].record.sync_time
          /\ DataPairs(table[i].json_response) = DataPairs(lastCall[1].api_record)
          /\ table[i].json_response # lastCall[1].api_record

\* C6: no step deletes a row of the entity table or changes the columns,
\* the payload or the valid_from of one, and a row that is closed keeps its
\* valid_to.
AppendOnlyHistory ==
    [][/\ Len(table') >= Len(table)
       /\ \A i \in 1..Len(table) :
             /\ table'[i].cols = table[i].cols
             /\ table'[i].json_response = table[i].json_response
             /\ table'[i].valid_from = table[i].valid_from
             /\ table[i].valid_to # NULL
                    => table'[i].valid_to = table[i].valid_to]_vars

\* A version was closed and upsert_scd2 has since been called for another key
AppendOnlyHistoryWitness ==
    /\ lastCall # <<>>
    /\ \E i \in 1..Len(table) :
          /\ table[i].valid_to # NULL
          /\ BusinessKey(table[i]) # lastCall[1].result.business_key_value

\* The option codes selected in the multi-select field of an API record
SelectedCodes(api_record) ==
    LET raw == DictGet(api_record, KeyCats)
    IN  {raw[i] : i \in 1..Len(raw)}

\* C7: when upsert_scd2 creates a version of the parent at t, every junction
\* row of the entity that was active is closed with valid_to = t and one
\* active row with valid_from = t is inserted for each selected option code,
\* so that the active junction rows are exactly the selected codes.
SnapshotOnNewVersion ==
    [][(UpsertReturned /\ lastCall'[1].result.version_created) =>
        LET e == lastCall'[1].result.business_key_value
            t == lastCall'[1].result.valid_from
            codes == SelectedCodes(lastCall'[1].api_record)
            act == ActiveJunctionRowsOf(junction', e)
        IN  /\ \A i \in ActiveJunctionRowsOf(junction, e) :
                   junction'[i].valid_to = t
            /\ \A c \in codes :
                   Cardinality({i \in act :
                       /\ junction'[i].option_code = c
                       /\ junction'[i].valid_from = t}) = 1
            /\ {junction'[i].option_code : i \in act} = codes]_vars

\* C8: when upsert_scd2 reports version_created = FALSE, no junction row is
\* inserted, closed or modified.
JunctionUntouchedWithoutVersion ==
    [][(UpsertReturned /\ ~lastCall'[1].result.version_created)
            => junction' = junction]_vars

\* An unchanged record with a multi-select value was presented again while
\* its entity has active junction rows
JunctionUntouchedWithoutVersionWitness ==
    /\ lastCall # <<>>
    /\ ~lastCall[1].raised
    /\ ~lastCall[1].result.version_created
    /\ DetectFromRecord(lastCall[1].api_record) # <<>>
    /\ Cardinality(SelectedCodes(lastCall[1].api_record)) >= 2
    /\ ActiveJunctionRowsOf(junction,
                            lastCall[1].result.business_key_value) # {}

\* C9: for an entity whose multi-select field carries a selection, junction
\* rows with valid_from = t exist if and only if the parent has a version
\* with valid_from = t.
JunctionAlignment ==
    \A k \in Keys, t \in Times :
        (\E i \in JunctionRowsOf(junction, <<k>>) : junction[i].valid_from = t)
        <=> (\E i \in RowsOf(k) :
                /\ table[i].valid_from = t
                /\ DictGet(table[i].json_response, KeyCats) # None)

\* End of the half-open interval of a junction row; an open row has no end
IntervalEnd(row) == IF row.valid_to = NULL THEN MaxTime + 1 ELSE row.valid_to

Overlap(a, b) ==
    /\ a.valid_from < IntervalEnd(a)
    /\ b.valid_from < IntervalEnd(b)
    /\ a.valid_from < IntervalEnd(b)
    /\ b.valid_from < IntervalEnd(a)

OptionCodes == {1, 2, 3}

OptionLabels == {LabelOf(code) : code \in {1, 2}}

\* One call of upsert_option_set_value(field_name, code, label); existing is
\* the label the SELECT found, None when there was no row
OptionSetUpsert(code, label) ==
    /\ optionset' = UpsertOptionSetValue(optionset, code, label, now)
    /\ lastCall' = <<[code |-> code, label |-> label,
                      existing |-> IF FindCode(optionset, code) = 0 THEN None
                                   ELSE <<optionset[FindCode(optionset, code)].label>>]>>
    /\ UNCHANGED <<server, schemaCols, tableCols, now, table, junction,
                   sync_state, sync_log, runVars, changed, noop>>
    /\ UNCHANGED orchVars
    /\ UNCHANGED clientVars
    /\ UNCHANGED directVars

OptionSetNext ==
    \/ Tick
    \/ \E code \in OptionCodes, label \in OptionLabels :
          OptionSetUpsert(code, label)

OptionSetSpec == Init /\ [][OptionSetNext]_vars

\* C11: the lookup table has one row per code; a call with a code already
\* present keeps the row's first_seen and leaves the presented label in the
\* row; a call with a new code adds one row; no other row changes.
OptionSetMonotonic ==
    [][/\ \A i, j \in 1..Len(optionset') :
             optionset'[i].code = optionset'[j].code => i = j
       /\ \A i \in 1..Len(optionset) :
             \E j \in 1..Len(optionset') :
                /\ optionset'[j].code = optionset[i].code
                /\ optionset'[j].first_seen = optionset[i].first_seen
                /\ (lastCall' = <<>> \/ lastCall'[1].code # optionset[i].code)
                       => optionset'[j].label = optionset[i].label
       /\ lastCall' # <<>> =>
             \E j \in 1..Len(optionset') :
                /\ optionset'[j].code = lastCall'[1].code
                /\ optionset'[j].label = lastCall'[1].label]_vars

\* A code first seen earlier was presented with another label, which is now
\* in its row
OptionSetMonotonicWitness ==
    /\ lastCall # <<>>
    /\ lastCall[1].existing # None
    /\ lastCall[1].existing # <<lastCall[1].label>>
    /\ \E i \in 1..Len(optionset) :
          /\ optionset[i].code = lastCall[1].code
          /\ optionset[i].label = lastCall[1].label
          /\ optionset[i].first_seen < now

\* ------------------------------------------------- run_sync_workflow
\* The configured entities, in config order
RunEntities == <<"accounts", "contacts">>

RunEntitySet == {RunEntities[i] : i \in 1..Len(RunEntities)}

\* What validation can find for an entity: it is not in $metadata, it has no
\* table yet, its table matches, or the comparer reports one issue
EntityStatuses ==
    {"not_in_metadata", "new", "same", "missing_column", "type_mismatch"}

\* SchemaComparer: the severity it gives to an issue type
SeverityOf(issue_type) ==
    CASE issue_type = "missing_table" -> "info"
      [] issue_type = "extra_table" -> "warning"
      [] issue_type = "missing_column" -> "info"
      [] issue_type = "extra_column" -> "warning"
      [] issue_type = "type_mismatch" -> "error"
      [] issue_type = "nullable_mismatch" -> "warning"
      [] issue_type = "pk_mismatch" -> "error"
      [] issue_type = "fk_missing" -> "info"
      [] issue_type = "fk_mismatch" -> "warning"
      [] issue_type = "fk_extra" -> "info"

\* _validate_entity_schema: [valid, create, differences] for one entity
ValidateEntitySchema(entity, status) ==
    CASE status = "not_in_metadata" ->
            [valid |-> FALSE, create |-> FALSE,
             differences |-> <<[entity |-> entity, severity |-> "warning"]>>]
      [] status = "new" ->
            [valid |-> TRUE, create |-> TRUE,
             differences |-> <<[entity |-> entity, severity |-> "info"]>>]
      [] status = "same" ->
            [valid |-> TRUE, create |-> FALSE, differences |-> <<>>]
      [] OTHER ->
            [valid |-> TRUE, create |-> FALSE,
             differences |-> <<[entity |-> entity,
                                severity |-> SeverityOf(status)]>>]

RECURSIVE CollectDifferences(_, _)
CollectDifferences(status, i) ==
    IF i > Len(RunEntities) THEN <<>>
    ELSE ValidateEntitySchema(RunEntities[i], status[RunEntities[i]]).differences
         \o CollectDifferences(status, i + 1)

ErrorsOf(diffs) == SelectSeq(diffs, LAMBDA d : d.severity = "error")

\* _report_validation_results: validation passes when no difference is an
\* error
ValidationIgnored(diffs) == TRUE

ValidationPassed(diffs) == ErrorsOf(diffs) = <<>>

\* The dict run_sync_workflow returns
RunResults(success, total, failed, validation_errors, reference_errors) ==
    [success |-> success, total_added |-> total[1],
     total_updated |-> total[2], failed_entities |-> failed,
     validation_errors |-> validation_errors,
     reference_errors |-> reference_errors]

FilteredFlagIgnored == valid_entities

Unfiltered == SelectSeq(valid_entities, LAMBDA e : e \notin cfg.filtered)

Filtered == SelectSeq(valid_entities, LAMBDA e : e \in cfg.filtered)

\* max_iterations of _sync_filtered_entities
MaxIterations == 5

\* run_sync_workflow is called: validate_schema_before_sync and the two
\* early returns
ValidateSchemaBeforeSync ==
    /\ rpc = "start"
    /\ LET diffs == CollectDifferences(cfg.status, 1)
           valid == SelectSeq(RunEntities, LAMBDA e :
                        ValidateEntitySchema(e, cfg.status[e]).valid)
       IN  /\ differences' = diffs
           /\ valid_entities' = valid
           /\ entities_to_create' = SelectSeq(RunEntities, LAMBDA e :
                        ValidateEntitySchema(e, cfg.status[e]).create)
           /\ IF ~ValidationPassed(diffs)
              THEN /\ results' = <<RunResults(FALSE, <<0, 0>>, <<>>,
                                              ErrorsOf(diffs), <<>>)>>
                   /\ rpc' = "done"
              ELSE IF valid = <<>>
              THEN /\ results' = <<RunResults(FALSE, <<0, 0>>, <<>>, <<>>,
                                              <<>>)>>
                   /\ rpc' = "done"
              ELSE /\ results' = <<>>
                   /\ rpc' = "initialize"
    /\ UNCHANGED <<cfg, tablesCreated, fetched, upserted, eidx, totals,
                   failed_entities, requested, stored>>
    /\ UNCHANGED <<server, schemaCols, tableCols, now, dbVars, sync_state,
                   sync_log, runVars, lastCall, changed, noop, clientVars,
                   directVars>>

\* _initialize_database: init_sync_tables and initialize_tables
InitializeDatabase ==
    /\ rpc = "initialize"
    /\ tablesCreated' = {"_sync_state", "_sync_log"}
            \cup {entities_to_create[i] : i \in 1..Len(entities_to_create)}
    /\ eidx' = 1
    /\ rpc' = IF Unfiltered # <<>> THEN "unfiltered"
              ELSE IF Filtered # <<>> THEN "filtered" ELSE "verify"
    /\ UNCHANGED <<cfg, differences, valid_entities, entities_to_create,
                   fetched, upserted, totals, failed_entities, results,
                   requested, stored>>
    /\ UNCHANGED <<server, schemaCols, tableCols, now, dbVars, sync_state,
                   sync_log, runVars, lastCall, changed, noop, clientVars,
                   directVars>>

\* The records upstream: one account, whose _primarycontactid_value is
\* cfg.fk, and the contacts cfg.contacts
Upstream(entity) ==
    IF entity = "accounts" THEN {[id |-> 1, fk |-> cfg.fk]}
    ELSE {[id |-> k, fk |-> NULL] : k \in cfg.contacts}

\* RelationshipGraph.get_entities_that_reference: the referenced_by list
\* build_from_metadata made, of (table, fk column, referenced column); the
\* one foreign key $metadata may declare is
\* accounts._primarycontactid_value -> contacts.contactid
GetEntitiesThatReference(entity) ==
    IF /\ entity = "contacts"
       /\ cfg.refs
       /\ cfg.status["accounts"] # "not_in_metadata"
       /\ cfg.status["contacts"] # "not_in_metadata"
    THEN {<<"accounts", "_primarycontactid_value", "contactid">>}
    ELSE {}

\* DatabaseManager.query_distinct_values: the distinct non-null values of the
\* column (the rows of a missing table are none)
QueryDistinctValues(rows, table_name, column) ==
    IF column = "_primarycontactid_value"
    THEN {r.fk : r \in {x \in rows : x.entity = table_name}} \ {NULL}
    ELSE {}

\* "for table_name, fk_column in references" of extract_filtered_ids: the
\* unpacking raises ValueError unless the tuple has two elements
UnpackRaises(reference) == Len(reference) # 2

\* FilteredSyncManager.extract_filtered_ids: [raised, ids].  The rows do not
\* change while it runs, so its loop finds everything in its first iteration
\* and converges in the second.
ExtractFilteredIds(rows, filtered_entities) ==
    IF \E i \in 1..Len(filtered_entities) :
          \E reference \in GetEntitiesThatReference(filtered_entities[i]) :
             UnpackRaises(reference)
    THEN [raised |-> TRUE, ids |-> [e \in RunEntitySet |-> {}]]
    ELSE [raised |-> FALSE,
          ids |-> [e \in RunEntitySet |->
                     IF \E i \in 1..Len(filtered_entities) :
                           filtered_entities[i] = e
                     THEN UNION {QueryDistinctValues(rows, reference[1],
                                                     reference[2]) :
                                 reference \in GetEntitiesThatReference(e)}
                     ELSE {}]]

\* The rows upsert_batch would write for the records
RowsFor(entity, recs) ==
    {[entity |-> entity, id |-> r.id, fk |-> r.fk] : r \in recs}

\* sync_entity or sync_filtered_entity for one entity, as the orchestrator
\* sees it: the log row is started, the records are requested, and the call
\* either raises after fail_sync or upserts and completes.  acc holds the
\* tables and counters the call works on, asked the IDs the server is asked
\* for and recs the records it returns.
SyncOneEntity(acc, entity, asked, recs, raises) ==
    LET started == [acc EXCEPT
                      !.sync_state = SetState(@, entity, "in_progress"),
                      !.sync_log = StartLog(@, entity),
                      !.fetched = @ \cup {entity},
                      !.requested = @ \cup {<<entity, id>> : id \in asked}]
        log_id == Len(started.sync_log)
        new_rows == RowsFor(entity, recs) \ acc.stored
    IN  IF raises
        THEN [started EXCEPT
                !.sync_state = SetState(@, entity, "failed"),
                !.sync_log = FailLog(@, log_id),
                !.failed = Append(@, entity)]
        ELSE [started EXCEPT
                !.sync_state = SetState(@, entity, "completed"),
                !.sync_log = CompleteLog(@, log_id, Cardinality(new_rows), 0),
                !.upserted = IF recs = {} THEN @ ELSE @ \cup {entity},
                !.stored = @ \cup new_rows,
                !.totals = <<@[1] + Cardinality(new_rows), @[2]>>]

\* sync_entity: the first sync of an entity asks for all its records
SyncEntity(acc, entity, raises) ==
    SyncOneEntity(acc, entity, Keys, Upstream(entity), raises)

\* A partition that looks the IDs up whether or not a timestamp is stored
SeparateAlways(rows, ids, entity, has_timestamp) ==
    LET existing_ids ==
            {id \in ids : \E r \in rows : r.entity = entity /\ r.id = id}
    IN  <<ids \ existing_ids, existing_ids>>

\* _separate_new_and_existing_ids: <<new_ids, existing_ids>>
SeparateNewAndExistingIds(rows, ids, entity, has_timestamp) ==
    IF ~has_timestamp THEN <<ids, {}>>
    ELSE LET existing_ids ==
                 {id \in ids : \E r \in rows : r.entity = entity /\ r.id = id}
         IN  <<ids \ existing_ids, existing_ids>>

\* _fetch_id_batch without timestamp filter: the records whose primary key
\* is in the batch
FetchIdBatch(entity, batch) == {r \in Upstream(entity) : r.id \in batch}

\* sync_filtered_entity: the new IDs are fetched without timestamp filter;
\* the existing ones with "modifiedon gt last_timestamp", which no record
\* passes while upstream does not change during the run
SyncFilteredEntity(acc, entity, ids, raises) ==
    LET has_timestamp == \E r \in acc.stored : r.entity = entity
        split == SeparateNewAndExistingIds(acc.stored, ids, entity,
                                           has_timestamp)
    IN  SyncOneEntity(acc, entity, ids, FetchIdBatch(entity, split[1]),
                      raises)

Acc == [sync_state |-> sync_state, sync_log |-> sync_log, fetched |-> fetched,
        upserted |-> upserted, totals |-> totals, failed |-> failed_entities,
        requested |-> requested, stored |-> stored,
        synced_ids |-> [e \in RunEntitySet |-> {}], raised |-> FALSE]

\* The loop of _sync_unfiltered_entities after an entity failed: "continue"
StopAfterFailure(i, n) == n + 1

NextAfterFailure(i, n) == i + 1

\* One iteration of the loop of _sync_unfiltered_entities
SyncUnfilteredEntity ==
    /\ rpc = "unfiltered"
    /\ eidx <= Len(Unfiltered)
    /\ LET entity == Unfiltered[eidx]
           raises == entity \in cfg.raises
           out == SyncEntity(Acc, entity, raises)
           next == IF raises THEN NextAfterFailure(eidx, Len(Unfiltered))
                   ELSE eidx + 1
       IN  /\ sync_state' = out.sync_state
           /\ sync_log' = out.sync_log
           /\ fetched' = out.fetched
           /\ upserted' = out.upserted
           /\ totals' = out.totals
           /\ failed_entities' = out.failed
           /\ requested' = out.requested
           /\ stored' = out.stored
           /\ eidx' = next
           /\ rpc' = IF next <= Len(Unfiltered) THEN "unfiltered"
                     ELSE IF Filtered # <<>> THEN "filtered" ELSE "verify"
    /\ UNCHANGED <<cfg, differences, valid_entities, entities_to_create,
                   tablesCreated, results>>
    /\ UNCHANGED <<server, schemaCols, tableCols, now, dbVars, runVars,
                   lastCall, changed, noop, clientVars,
                   directVars>>

\* One pass of _sync_filtered_entities over the filtered entities that have
\* new IDs: those extracted and not yet in synced_ids
RECURSIVE FilteredPass(_, _, _)
FilteredPass(acc, filtered_ids, i) ==
    IF i > Len(Filtered) THEN acc
    ELSE LET entity == Filtered[i]
             new_ids == filtered_ids[entity] \ acc.synced_ids[entity]
             raises == entity \in cfg.raises
             out == SyncFilteredEntity(acc, entity, new_ids, raises)
         IN  IF new_ids = {} THEN FilteredPass(acc, filtered_ids, i + 1)
             ELSE IF raises THEN FilteredPass(out, filtered_ids, i + 1)
             ELSE FilteredPass(
                      [out EXCEPT !.synced_ids[entity] = @ \cup new_ids],
                      filtered_ids, i + 1)

\* The iterations of _sync_filtered_entities: extract_filtered_ids is called
\* outside any try, so its exception ends the loop and the run; otherwise
\* the loop stops when no entity has new IDs or after max_iterations passes
RECURSIVE FilteredIterations(_, _)
FilteredIterations(acc, iteration) ==
    IF iteration > MaxIterations THEN acc
    ELSE LET extracted == ExtractFilteredIds(acc.stored, Filtered)
             has_new_ids ==
                 \E i \in 1..Len(Filtered) :
                    extracted.ids[Filtered[i]]
                        \ acc.synced_ids[Filtered[i]] # {}
         IN  IF extracted.raised THEN [acc EXCEPT !.raised = TRUE]
             ELSE IF ~has_new_ids THEN acc
             ELSE FilteredIterations(FilteredPass(acc, extracted.ids, 1),
                                     iteration + 1)

\* _sync_filtered_entities as a whole; when it raises, so does
\* run_sync_workflow
SyncFilteredEntities ==
    /\ rpc = "filtered"
    /\ LET out == FilteredIterations(Acc, 1)
       IN  /\ sync_state' = out.sync_state
           /\ sync_log' = out.sync_log
           /\ fetched' = out.fetched
           /\ upserted' = out.upserted
           /\ totals' = out.totals
           /\ failed_entities' = out.failed
           /\ requested' = out.requested
           /\ stored' = out.stored
           /\ rpc' = IF out.raised THEN "raised" ELSE "verify"
    /\ UNCHANGED <<cfg, differences, valid_entities, entities_to_create,
                   tablesCreated, eidx, results>>
    /\ UNCHANGED <<server, schemaCols, tableCols, now, dbVars, runVars,
                   lastCall, changed, noop, clientVars,
                   directVars>>

\* success = len(failed_entities) == 0 and not has_reference_issues
SuccessIgnoringReferences(failed, has_reference_issues) == Len(failed) = 0

RunSuccess(failed, has_reference_issues) ==
    Len(failed) = 0 /\ ~has_reference_issues

\* _verify_references, then the success flag and the returned dict
VerifyReferences ==
    /\ rpc = "verify"
    /\ LET has_reference_issues == cfg.verify /\ cfg.dangling
           reference_issues == IF has_reference_issues
                               THEN <<"dangling_reference">> ELSE <<>>
           success == RunSuccess(failed_entities, has_reference_issues)
       IN  results' = <<RunResults(success, totals, failed_entities, <<>>,
                                   reference_issues)>>
    /\ rpc' = "done"
    /\ UNCHANGED <<cfg, differences, valid_entities, entities_to_create,
                   tablesCreated, fetched, upserted, eidx, totals,
                   failed_entities, requested, stored>>
    /\ UNCHANGED <<server, schemaCols, tableCols, now, dbVars, sync_state,
                   sync_log, runVars, lastCall, changed, noop, clientVars,
                   directVars>>

\* A run starts on an empty database file or after tables exist, with any
\* configuration of the two entities
RunInit ==
    /\ server = <<>>
    /\ schemaCols = BaseCols
    /\ tableCols = schemaCols
    /\ now = 1
    /\ table = <<>>
    /\ junction = <<>>
    /\ optionset = <<>>
    /\ sync_state = <<>>
    /\ sync_log = <<>>
    /\ pc = "idle"
    /\ filter_sent = NULL
    /\ DirectOff
    /\ records = <<>>
    /\ idx = 1
    /\ added = 0
    /\ updated = 0
    /\ lastCall = <<>>
    /\ changed = FALSE
    /\ noop = FALSE
    /\ cfg \in [status : [RunEntitySet -> EntityStatuses],
                filtered : SUBSET {"contacts"},
                raises : SUBSET RunEntitySet,
                verify : BOOLEAN, dangling : BOOLEAN, refs : BOOLEAN,
                fk : {NULL} \cup Keys, contacts : SUBSET Keys]
    /\ rpc = "start"
    /\ differences = <<>>
    /\ valid_entities = <<>>
    /\ entities_to_create = <<>>
    /\ tablesCreated = {}
    /\ fetched = {}
    /\ upserted = {}
    /\ eidx = 1
    /\ totals = <<0, 0>>
    /\ failed_entities = <<>>
    /\ results = <<>>
    /\ requested = {}
    /\ stored = {}
    /\ ClientOff

RunNext ==
    \/ ValidateSchemaBeforeSync
    \/ InitializeDatabase
    \/ SyncUnfilteredEntity
    \/ SyncFilteredEntities
    \/ VerifyReferences

RunSpec == RunInit /\ [][RunNext]_vars

HasErrorDifference ==
    \E i \in 1..Len(differences) : differences[i].severity = "error"

\* C12: once schema comparison has yielded an error-severity difference, the
\* run has returned success = FALSE with exactly the error differences
\* listed, and it has created no table, requested no entity records and
\* written nothing to an entity table, _sync_state or _sync_log.
SchemaErrorAborts ==
    HasErrorDifference =>
        /\ rpc = "done"
        /\ results # <<>>
        /\ ~results[1].success
        /\ \A i \in 1..Len(differences) :
              differences[i].severity = "error" =>
                 \E j \in 1..Len(results[1].validation_errors) :
                    results[1].validation_errors[j] = differences[i]
        /\ \A j \in 1..Len(results[1].validation_errors) :
              results[1].validation_errors[j].severity = "error"
        /\ tablesCreated = {}
        /\ fetched = {}
        /\ upserted = {}
        /\ table = <<>>
        /\ sync_state = <<>>
        /\ sync_log = <<>>

\* The run returned on a type mismatch of one entity while the other entity
\* was new and would have had its table created
SchemaErrorAbortsWitness ==
    /\ rpc = "done"
    /\ HasErrorDifference
    /\ \E e \in RunEntitySet : cfg.status[e] = "new"
    /\ results[1].validation_errors # <<>>

\* The run got past validation and past both sync phases
SyncPhasesDone ==
    \/ rpc = "verify"
    \/ rpc = "raised"
    \/ rpc = "done" /\ ~HasErrorDifference /\ valid_entities # <<>>

\* The entity is one the run has to sync: it is valid and, if filtered, some
\* synced row references it
ToBeSynced(e) ==
    /\ \E i \in 1..Len(valid_entities) : valid_entities[i] = e
    /\ e \in cfg.filtered =>
          ExtractFilteredIds(stored, Filtered).ids[e] # {}

LogRowsOf(e) == {i \in 1..Len(sync_log) : sync_log[i].entity_name = e}

\* C13: when the sync phases are over, every entity to be synced has been
\* synced: one whose sync raised has its log rows stamped failed and is in
\* failed_entities, and every other one has a completed log row, whatever
\* happened to the entities before it.
FailureIsolated ==
    SyncPhasesDone =>
        \A e \in RunEntitySet :
            ToBeSynced(e) =>
                /\ LogRowsOf(e) # {}
                /\ e \in fetched
                /\ IF e \in cfg.raises
                   THEN /\ \A i \in LogRowsOf(e) : sync_log[i].status = "failed"
                        /\ \E j \in 1..Len(failed_entities) :
                              failed_entities[j] = e
                   ELSE /\ \E i \in LogRowsOf(e) :
                              sync_log[i].status = "completed"
                        /\ \A j \in 1..Len(failed_entities) :
                              failed_entities[j] # e

\* The first unfiltered entity raised and the one after it was synced
FailureIsolatedWitness ==
    /\ rpc = "done"
    /\ cfg.filtered = {}
    /\ cfg.raises = {"accounts"}
    /\ failed_entities = <<"accounts">>
    /\ Len(sync_log) = 2
    /\ sync_log[1].status = "failed"
    /\ sync_log[2].entity_name = "contacts"
    /\ sync_log[2].status = "completed"

SomeLogFailed == \E i \in 1..Len(sync_log) : sync_log[i].status = "failed"

\* C14 as stated: the returned success flag is TRUE if and only if validation
\* passed, no entity sync failed and, when verification was requested, the
\* verifier found no dangling foreign key.
SuccessIff ==
    rpc = "done" =>
        (results[1].success <=>
            /\ ~HasErrorDifference
            /\ ~SomeLogFailed
            /\ ~(cfg.verify /\ cfg.dangling))

\* C14, amended: the returned success flag is TRUE if and only if validation
\* passed, at least one configured entity is in $metadata, no entity sync
\* failed and, when verification was requested, the verifier found no
\* dangling foreign key.
SuccessIffSomeValid ==
    rpc = "done" =>
        (results[1].success <=>
            /\ ~HasErrorDifference
            /\ \E e \in RunEntitySet : cfg.status[e] # "not_in_metadata"
            /\ ~SomeLogFailed
            /\ ~(cfg.verify /\ cfg.dangling))

\* A run with verification requested, entities synced without failure and a
\* dangling reference has returned
SuccessIffSomeValidWitness ==
    /\ rpc = "done"
    /\ cfg.verify /\ cfg.dangling
    /\ ~HasErrorDifference
    /\ upserted = RunEntitySet
    /\ ~SomeLogFailed
    /\ ~results[1].success

\* _sync_filtered_entities has been called and is over
FilteredLoopEnded ==
    /\ Filtered # <<>>
    /\ SyncPhasesDone

BusinessKeys(entity) == {r.id : r \in {x \in stored : x.entity = entity}}

\* C15: after the filtered loop of the orchestrator has ended, for every
\* filtered entity and every (table, column) that references it, every
\* distinct non-null value of the column is a business key in the entity's
\* table.
FilteredClosureFixpoint ==
    FilteredLoopEnded =>
        \A i \in 1..Len(Filtered) :
           \A reference \in GetEntitiesThatReference(Filtered[i]) :
              QueryDistinctValues(stored, reference[1], reference[2])
                  \subseteq BusinessKeys(Filtered[i])

\* The IDs of the entity that occur as a foreign-key value in a synced
\* referrer table
ReferencedIds(entity) ==
    UNION {QueryDistinctValues(stored, reference[1], reference[2]) :
           reference \in GetEntitiesThatReference(entity)}

\* C16: a filtered entity is only ever requested for IDs that occur as a
\* foreign-key value in an already-synced referrer table, so a record of a
\* filtered entity that nothing references is never requested from the
\* server and never stored.
OnlyReferencedRequested ==
    rpc # "start" =>
        \A e \in cfg.filtered :
           \A id \in Keys :
              (<<e, id>> \in requested \/ id \in BusinessKeys(e))
                  => id \in ReferencedIds(e)

\* The run returned after the filtered loop met a filtered entity whose
\* records upstream nothing references, next to a synced unfiltered entity
OnlyReferencedRequestedWitness ==
    /\ rpc = "done"
    /\ Filtered = <<"contacts">>
    /\ cfg.contacts = Keys
    /\ \E r \in stored : r.entity = "accounts"
    /\ ReferencedIds("contacts") = {}
    /\ BusinessKeys("contacts") = {}
    /\ results[1].success

\* ---------------------------------------------------------------------
\* DataverseClient: get, fetch_with_retry and fetch_all_pages, called by
\* tasks that run on one event loop
\* ---------------------------------------------------------------------

NumTasks == 2

\* The largest max_concurrent a client is constructed with
MaxConcurrent == 6

\* The longest chain of pages the server holds
MaxPages == 3

Tasks == 1..NumTasks

HTTP_OK == 200
HTTP_UNAUTHORIZED == 401
HTTP_TOO_MANY_REQUESTS == 429
HTTP_SERVER_ERROR == 500

\* self.retry_delays
retry_delays == <<1, 2, 4, 8, 16>>

\* What an HTTP request of the client can meet: aiohttp.ClientError or
\* asyncio.TimeoutError (error), or a response with a status, a Retry-After
\* header ("absent" when there is none) and a body, taken as the set of the
\* words in it
HttpResponse(error, status, retry_after, body) ==
    [error |-> error, status |-> status, retry_after |-> retry_after,
     body |-> body]

NoResponse == HttpResponse(FALSE, 0, "absent", {})

RetryAfterValues == {"absent", "3", "soon"}

Responses ==
    {HttpResponse(TRUE, 0, "absent", {}),
     HttpResponse(FALSE, 200, "absent", {}),
     HttpResponse(FALSE, 400, "absent", {"orderby"}),
     HttpResponse(FALSE, 401, "absent", {}),
     HttpResponse(FALSE, 403, "absent", {"principal", "400"}),
     HttpResponse(FALSE, 404, "absent", {}),
     HttpResponse(FALSE, 503, "absent", {})}
    \cup {HttpResponse(FALSE, 429, h, {}) : h \in RetryAfterValues}

\* int(retry_after): <<value>>, or <<>> when it raises ValueError
IntOf(text) == IF text = "3" THEN <<3>> ELSE <<>>

\* The wait of fetch_with_retry on a 429: the Retry-After header as an
\* integer, the current backoff step when it is absent or not an integer
WaitTime(retry_after, attempt) ==
    LET step == retry_delays[Min(attempt, Len(retry_delays) - 1) + 1]
    IN  IF retry_after = "absent" THEN step
        ELSE IF IntOf(retry_after) # <<>> THEN IntOf(retry_after)[1]
        ELSE step

\* "attempt < len(self.retry_delays)"
RetriesOneLess(attempt) == attempt < Len(retry_delays) - 1

CanRetry(attempt) == attempt < Len(retry_delays)

\* "response.status >= HTTP_SERVER_ERROR"
IsClientOrServerError(status) == status >= 400

IsServerError(status) == status >= HTTP_SERVER_ERROR

NoError == [kind |-> "", status |-> 0, body |-> {}]

\* What one attempt of fetch_with_retry does with what its request met:
\* [do, wait, error], do being "retry" (sleep for wait, then the next
\* attempt), "raise" (RuntimeError) or "return" (the JSON of the response)
FetchOutcome(resp, attempt) ==
    LET retry(wait) == [do |-> "retry", wait |-> wait, error |-> NoError]
        raise(kind) == [do |-> "raise", wait |-> 0,
                        error |-> [kind |-> kind, status |-> resp.status,
                                   body |-> resp.body]]
    IN  IF resp.error
        THEN IF CanRetry(attempt) THEN retry(retry_delays[attempt + 1])
             ELSE raise("Network error")
        ELSE IF resp.status = HTTP_TOO_MANY_REQUESTS
        THEN IF CanRetry(attempt)
             THEN retry(WaitTime(resp.retry_after, attempt))
             ELSE raise("Rate limited")
        ELSE IF resp.status = HTTP_UNAUTHORIZED THEN raise("Token expired")
        ELSE IF IsServerError(resp.status)
        THEN IF CanRetry(attempt) THEN retry(retry_delays[attempt + 1])
             ELSE raise("Server error")
        ELSE IF resp.status # HTTP_OK THEN raise("API request failed")
        ELSE [do |-> "return", wait |-> 0, error |-> NoError]

\* A URL of the entity: the entity's collection, or the @odata.nextLink
\* that leads to the page
EntityUrl == [kind |-> "entity", page |-> 1]

NextLink(page) == [kind |-> "nextLink", page |-> page]

NoUrl == [kind |-> "", page |-> 0]

\* A task that is in no call of the client
IdleCall ==
    [op |-> "idle", pc |-> "idle", mode |-> "", url |-> NoUrl, params |-> {},
     attempt |-> 0, held |-> 0, sent |-> 0, slept |-> 0, last |-> NoResponse,
     error |-> NoError, page_num |-> 0, all_records |-> <<>>, log |-> <<>>,
     query |-> {}, cause |-> NoError]

\* get: the request is sent at once, under no semaphore
CallGet(t) ==
    /\ calls[t].pc = "idle"
    /\ calls' = [calls EXCEPT ![t] =
                   [IdleCall EXCEPT !.op = "get", !.pc = "awaiting",
                                    !.url = EntityUrl, !.sent = 1,
                                    !.log = <<[url |-> EntityUrl,
                                               params |-> {}]>>]]
    /\ UNCHANGED <<capacity, permits, pages>>
    /\ UNCHANGED <<server, schemaCols, tableCols, now, dbVars, sync_state,
                   sync_log, runVars, lastCall, changed, noop, orchVars,
                   directVars>>

\* get: the response arrives; any status but 200, and any ClientError, is
\* raised as RuntimeError
GetResponse(t, resp) ==
    /\ calls[t].op = "get"
    /\ calls[t].pc = "awaiting"
    /\ calls' = [calls EXCEPT ![t] =
                   [@ EXCEPT !.last = resp,
                             !.pc = IF ~resp.error /\ resp.status = HTTP_OK
                                    THEN "returned" ELSE "raised",
                             !.error = IF resp.error
                                       THEN [kind |-> "HTTP request failed",
                                             status |-> 0, body |-> {}]
                                       ELSE IF resp.status # HTTP_OK
                                       THEN [kind |-> "API request failed",
                                             status |-> resp.status,
                                             body |-> resp.body]
                                       ELSE NoError]]
    /\ UNCHANGED <<capacity, permits, pages>>
    /\ UNCHANGED <<server, schemaCols, tableCols, now, dbVars, sync_state,
                   sync_log, runVars, lastCall, changed, noop, orchVars,
                   directVars>>

\* fetch_with_retry(url, params) is called: attempt 0 is about to enter
\* "async with self.semaphore"
StartFetch(call, op, url, params) ==
    [call EXCEPT !.op = op, !.pc = "acquire", !.url = url, !.params = params,
                 !.attempt = 0, !.held = 0, !.sent = 0, !.slept = 0,
                 !.last = NoResponse, !.error = NoError]

CallFetchWithRetry(t) ==
    /\ calls[t].pc = "idle"
    /\ calls' = [calls EXCEPT ![t] = StartFetch(IdleCall, "fetch", EntityUrl,
                                                {})]
    /\ UNCHANGED <<capacity, permits, pages>>
    /\ UNCHANGED <<server, schemaCols, tableCols, now, dbVars, sync_state,
                   sync_log, runVars, lastCall, changed, noop, orchVars,
                   directVars>>

\* An attempt of fetch_with_retry takes a permit and sends its request.  A
\* retry is the recursive call made inside the "async with" blocks of the
\* attempt before it, so the permits of the earlier attempts stay taken.
AcquirePermit(t) ==
    /\ calls[t].pc = "acquire"
    /\ permits > 0
    /\ permits' = permits - 1
    /\ calls' = [calls EXCEPT ![t] =
                   [@ EXCEPT !.pc = "awaiting", !.held = @ + 1,
                             !.sent = @ + 1,
                             !.log = Append(@, [url |-> calls[t].url,
                                                params |-> calls[t].params])]]
    /\ UNCHANGED <<capacity, pages>>
    /\ UNCHANGED <<server, schemaCols, tableCols, now, dbVars, sync_state,
                   sync_log, runVars, lastCall, changed, noop, orchVars,
                   directVars>>

\* The call that fetch_with_retry was, after its request met resp
AfterResponse(call, resp) ==
    LET outcome == FetchOutcome(resp, call.attempt)
    IN  IF outcome.do = "retry"
        THEN [call EXCEPT !.last = resp, !.slept = outcome.wait,
                          !.attempt = @ + 1, !.pc = "acquire"]
        ELSE [call EXCEPT !.last = resp, !.slept = 0, !.held = 0,
                          !.error = outcome.error,
                          !.pc = IF outcome.do = "raise" THEN "raised"
                                 ELSE "returned"]

\* fetch_with_retry: the request of the current attempt meets resp; the
\* call sleeps and retries, or it returns or raises, which leaves every
\* "async with self.semaphore" block it is in
FetchResponse(t, resp) ==
    /\ calls[t].op = "fetch"
    /\ calls[t].pc = "awaiting"
    /\ LET after == AfterResponse(calls[t], resp)
       IN  /\ calls' = [calls EXCEPT ![t] = after]
           /\ permits' = permits + (calls[t].held - after.held)
    /\ UNCHANGED <<capacity, pages>>
    /\ UNCHANGED <<server, schemaCols, tableCols, now, dbVars, sync_state,
                   sync_log, runVars, lastCall, changed, noop, orchVars,
                   directVars>>

\* A client is constructed with some max_concurrent and the tasks are in no
\* call
ClientInit ==
    /\ server = <<>>
    /\ schemaCols = BaseCols
    /\ tableCols = schemaCols
    /\ now = 1
    /\ table = <<>>
    /\ junction = <<>>
    /\ optionset = <<>>
    /\ sync_state = <<>>
    /\ sync_log = <<>>
    /\ pc = "idle"
    /\ filter_sent = NULL
    /\ DirectOff
    /\ records = <<>>
    /\ idx = 1
    /\ added = 0
    /\ updated = 0
    /\ lastCall = <<>>
    /\ changed = FALSE
    /\ noop = FALSE
    /\ OrchOff
    /\ capacity \in 1..MaxConcurrent
    /\ permits = capacity
    /\ calls = [t \in Tasks |-> IdleCall]
    /\ pages = <<>>

ClientNext ==
    \E t \in Tasks :
        \/ CallGet(t)
        \/ CallFetchWithRetry(t)
        \/ AcquirePermit(t)
        \/ \E resp \in Responses : GetResponse(t, resp)
        \/ \E resp \in Responses : FetchResponse(t, resp)

ClientSpec == ClientInit /\ [][ClientNext]_vars

\* The page a URL leads to, as the server answers it with HTTP 200: its
\* records and the @odata.nextLink to the page after it, if there is one
PageOf(url) ==
    [value |-> pages[url.page],
     nextLink |-> IF url.page < Len(pages) THEN NextLink(url.page + 1)
                  ELSE NoUrl]

\* "params if page_num == 1 else None" of _fetch_pages_with_orderby
AlwaysParams(page_num, params) == params

RequestParams(page_num, params) == IF page_num = 1 THEN params ELSE {}

\* fetch_all_pages(entity_name, orderby, filter_query, select) is called:
\* with an orderby it enters _fetch_pages_with_orderby, without one
\* _fetch_pages_without_orderby; both start with a fetch_with_retry of the
\* entity URL
CallFetchAllPages(t, orderby, filter_query, select) ==
    /\ calls[t].pc = "idle"
    /\ LET query == (IF filter_query THEN {"$filter"} ELSE {})
                    \cup (IF select THEN {"$select"} ELSE {})
           params == IF orderby THEN {"$orderby"} \cup query ELSE query
           call == [IdleCall EXCEPT
                      !.mode = IF orderby THEN "orderby" ELSE "unordered",
                      !.query = query, !.page_num = 1]
       IN  calls' = [calls EXCEPT ![t] =
                       StartFetch(call, "pages", EntityUrl,
                                  IF orderby THEN RequestParams(1, params)
                                  ELSE params)]
    /\ UNCHANGED <<capacity, permits, pages>>
    /\ UNCHANGED <<server, schemaCols, tableCols, now, dbVars, sync_state,
                   sync_log, runVars, lastCall, changed, noop, orchVars,
                   directVars>>

\* str(e).lower() of the RuntimeError of fetch_with_retry, as the set of the
\* words in it that the except clause of fetch_all_pages looks for: the
\* messages "API request failed" and "Server error" carry the status and
\* the body of the response
ErrorText(error) ==
    IF error.kind \in {"API request failed", "Server error"}
    THEN {ToString(error.status)} \cup error.body
    ELSE {}

\* The except clause of fetch_all_pages: the message holds "400" and one of
\* "orderby", "attribute", "principal"
Has400(error) == "400" \in ErrorText(error)

IsOrderbyError(error) ==
    /\ Has400(error)
    /\ ErrorText(error) \cap {"orderby", "attribute", "principal"} # {}

\* fetch_all_pages after the fetch_with_retry it is in returned or raised
AfterFetch(call, after) ==
    LET page == PageOf(call.url)
    IN  IF after.pc = "acquire" THEN after
        ELSE IF after.pc = "returned"
        THEN IF call.mode = "orderby"
             THEN LET all_records == call.all_records \o page.value
                      page_num == call.page_num + 1
                  IN  IF page.nextLink = NoUrl
                      THEN [after EXCEPT !.all_records = all_records,
                                         !.url = page.nextLink,
                                         !.page_num = page_num]
                      ELSE StartFetch(
                               [after EXCEPT !.all_records = all_records,
                                             !.page_num = page_num],
                               "pages", page.nextLink,
                               RequestParams(page_num,
                                             {"$orderby"} \cup call.query))
             ELSE [after EXCEPT !.all_records = page.value]
        ELSE IF call.mode = "orderby" /\ IsOrderbyError(after.error)
        THEN StartFetch([after EXCEPT !.mode = "fallback",
                                      !.all_records = <<>>,
                                      !.cause = after.error],
                        "pages", EntityUrl, call.query)
        ELSE after

\* fetch_all_pages: the request of the current attempt meets resp
PagesResponse(t, resp) ==
    /\ calls[t].op = "pages"
    /\ calls[t].pc = "awaiting"
    /\ LET after == AfterResponse(calls[t], resp)
       IN  /\ calls' = [calls EXCEPT ![t] = AfterFetch(calls[t], after)]
           /\ permits' = permits + (calls[t].held - after.held)
    /\ UNCHANGED <<capacity, pages>>
    /\ UNCHANGED <<server, schemaCols, tableCols, now, dbVars, sync_state,
                   sync_log, runVars, lastCall, changed, noop, orchVars,
                   directVars>>

\* The chains of pages the server may hold: one to MaxPages pages of two
\* records each, or one page with no record
PageChains ==
    {[k \in 1..n |-> <<2 * k - 1, 2 * k>>] : n \in 1..MaxPages}
    \cup {<< <<>> >>}

\* A client with the default of max_concurrent scaled down, one task, and
\* some chain of pages upstream
PagesInit ==
    /\ server = <<>>
    /\ schemaCols = BaseCols
    /\ tableCols = schemaCols
    /\ now = 1
    /\ table = <<>>
    /\ junction = <<>>
    /\ optionset = <<>>
    /\ sync_state = <<>>
    /\ sync_log = <<>>
    /\ pc = "idle"
    /\ filter_sent = NULL
    /\ DirectOff
    /\ records = <<>>
    /\ idx = 1
    /\ added = 0
    /\ updated = 0
    /\ lastCall = <<>>
    /\ changed = FALSE
    /\ noop = FALSE
    /\ OrchOff
    /\ capacity = MaxConcurrent
    /\ permits = capacity
    /\ calls = [t \in {1} |-> IdleCall]
    /\ pages \in PageChains

PagesNext ==
    \E t \in DOMAIN calls :
        \/ \E orderby, filter_query, select \in BOOLEAN :
              CallFetchAllPages(t, orderby, filter_query, select)
        \/ AcquirePermit(t)
        \/ \E resp \in Responses : PagesResponse(t, resp)

PagesSpec == PagesInit /\ [][PagesNext]_vars

\* The request met a 429, a 5xx or a transport error
KeepsFailing(resp) ==
    \/ resp.error
    \/ resp.status = HTTP_TOO_MANY_REQUESTS
    \/ resp.status >= HTTP_SERVER_ERROR

FetchCalls == {t \in DOMAIN calls : calls[t].op = "fetch"}

\* C17: a call of fetch_with_retry sends at most six requests, the first and
\* one per backoff step; after a 429, a 5xx or a transport error it sleeps
\* for the backoff step of the attempt (or for the Retry-After seconds of a
\* 429) and retries, and it raises only when the sixth request has failed
\* too; it returns as soon as a request gets HTTP 200, and only then.
RetryBudget ==
    \A t \in FetchCalls :
        LET call == calls[t]
        IN  /\ call.sent <= Len(retry_delays) + 1
            /\ call.attempt <= Len(retry_delays)
            /\ call.pc = "returned" <=> call.last.status = HTTP_OK
            /\ KeepsFailing(call.last) =>
                  IF call.pc = "raised"
                  THEN call.sent = Len(retry_delays) + 1
                  ELSE /\ call.pc \in {"acquire", "awaiting"}
                       /\ call.attempt >= 1
                       /\ \/ call.slept = retry_delays[call.attempt]
                          \/ /\ call.last.status = HTTP_TOO_MANY_REQUESTS
                             /\ IntOf(call.last.retry_after) = <<call.slept>>

\* A call raised after its sixth request met a 5xx
RetryBudgetWitness ==
    \E t \in FetchCalls :
        /\ calls[t].pc = "raised"
        /\ calls[t].sent = Len(retry_delays) + 1
        /\ calls[t].last.status >= HTTP_SERVER_ERROR
        /\ calls[t].error.kind = "Server error"

\* C18: when a request of fetch_with_retry gets a response whose status is
\* 401 or any other status that is not 200, 429 or 5xx, the call raises at
\* once, with no sleep and no further request: a call whose first response
\* is such a status has sent exactly one request.
ImmediateRaise ==
    \A t \in FetchCalls :
        LET call == calls[t]
        IN  (/\ call.last # NoResponse
             /\ ~call.last.error
             /\ call.last.status \notin {HTTP_OK, HTTP_TOO_MANY_REQUESTS}
             /\ call.last.status < HTTP_SERVER_ERROR)
            => /\ call.pc = "raised"
               /\ call.slept = 0
               /\ call.sent = call.attempt + 1
               /\ call.attempt = 0 => call.sent = 1

\* A call raised on a 401 that answered its first request
ImmediateRaiseWitness ==
    \E t \in FetchCalls :
        /\ calls[t].last.status = HTTP_UNAUTHORIZED
        /\ calls[t].pc = "raised"
        /\ calls[t].error.kind = "Token expired"
        /\ calls[t].sent = 1

\* The requests that were sent and have not been answered
InFlight == {t \in DOMAIN calls : calls[t].pc = "awaiting"}

\* C19: every request of the client in flight holds a permit of the
\* semaphore, and the number of requests in flight is at most
\* max_concurrent.
PermitBeforeRequest ==
    /\ \A t \in InFlight : calls[t].held >= 1
    /\ Cardinality(InFlight) <= capacity

RECURSIVE Flatten(_)
Flatten(seqs) ==
    IF seqs = <<>> THEN <<>> ELSE Head(seqs) \o Flatten(Tail(seqs))

OrderedCalls ==
    {t \in DOMAIN calls : calls[t].op = "pages" /\ calls[t].mode = "orderby"}

\* C20: an ordered fetch_all_pages asks for the pages in order, the entity
\* URL first with $orderby and the given $filter and $select, then each
\* @odata.nextLink with no parameters; it returns when a response carries no
\* nextLink, and what it returns is the records of all pages in page order.
OrderedPagination ==
    \A t \in OrderedCalls :
        LET call == calls[t]
            log == call.log
        IN  /\ \A i \in 1..Len(log) :
                  /\ log[i].url.kind = "entity" <=> log[i].url.page = 1
                  /\ log[i].params = IF log[i].url.kind = "entity"
                                     THEN {"$orderby"} \cup call.query
                                     ELSE {}
                  /\ i = 1 => log[i].url = EntityUrl
                  /\ i > 1 => \/ log[i].url = log[i - 1].url
                              \/ log[i].url = NextLink(log[i - 1].url.page + 1)
            /\ call.pc = "returned" =>
                  /\ call.all_records = Flatten(pages)
                  /\ log[Len(log)].url.page = Len(pages)

\* An ordered fetch returned the records of three pages after one of its
\* requests had been retried
OrderedPaginationWitness ==
    \E t \in OrderedCalls :
        /\ calls[t].pc = "returned"
        /\ Len(pages) = 3
        /\ Len(calls[t].all_records) = 6
        /\ Len(calls[t].log) > Len(pages)
        /\ "$filter" \in calls[t].query

PagesCalls == {t \in DOMAIN calls : calls[t].op = "pages"}

\* The requests of the call that carry no $orderby and go to the entity URL
Unordered(log) ==
    SelectSeq(log, LAMBDA r : r.url.kind = "entity" /\ "$orderby" \notin r.params)

\* C21: fetch_all_pages falls back only when the ordered fetch failed on a
\* response with status 400 whose message mentions orderby, attribute or
\* principal; the fallback is one fetch of the entity URL with the other
\* parameters and no $orderby, and what it returns is that single page, even
\* when more pages follow; after any other failure the call raises and has
\* sent no request without $orderby.
OrderbyFallback ==
    \A t \in PagesCalls :
        LET call == calls[t]
        IN  /\ call.mode = "fallback" =>
                  /\ call.cause.status = 400
                  /\ call.cause.body
                        \cap {"orderby", "attribute", "principal"} # {}
                  /\ Len(Unordered(call.log)) <= Len(retry_delays) + 1
                  /\ \A i \in 1..Len(Unordered(call.log)) :
                        Unordered(call.log)[i].params = call.query
                  /\ call.pc = "returned" => call.all_records = pages[1]
            /\ call.mode = "orderby" =>
                  /\ Unordered(call.log) = <<>>
                  /\ call.pc = "raised" =>
                        ~(/\ call.error.status = 400
                          /\ call.error.kind = "API request failed"
                          /\ call.error.body
                                \cap {"orderby", "attribute", "principal"}
                                # {})

\* ------------------------------------------------ claims on sync_entity
\* The step starts a sync_entity call: start_sync adds the _sync_log row
SyncStarted == Len(sync_log') = Len(sync_log) + 1

\* The last_timestamp column of the entity's _sync_state row, NULL when the
\* row or the value is absent
StoredTimestamp ==
    IF EntityName \in DOMAIN sync_state
    THEN sync_state[EntityName].last_timestamp
    ELSE NULL

\* C22: sync_entity fetches with the filter "modifiedon gt <last_timestamp>"
\* exactly when a last_timestamp is stored for the entity and the schema has
\* a modifiedon column; in every other case it sends no filter and the fetch
\* returns every record the server holds (full pull).
IncrementalFilter ==
    [][SyncStarted =>
        /\ (StoredTimestamp # NULL /\ "modifiedon" \in schemaCols)
              => filter_sent' = StoredTimestamp
        /\ ~(StoredTimestamp # NULL /\ "modifiedon" \in schemaCols)
              => /\ filter_sent' = NULL
                 /\ IF server = <<>> THEN pc' = "idle"
                    ELSE /\ pc' = "upserting"
                         /\ {records'[i].k : i \in 1..Len(records')}
                               = DOMAIN server]_vars

\* A second sync of the entity has fetched with the filter on the timestamp
\* the first one stored
IncrementalFilterWitness ==
    /\ Len(sync_log) >= 2
    /\ filter_sent # NULL
    /\ pc = "upserting"
    /\ Len(records) < Cardinality(DOMAIN server)

\* The step ends a sync_entity call that returns: complete_sync has run
SyncReturned ==
    /\ pc' = "idle"
    /\ SyncStarted \/ pc = "upserting"
    /\ sync_log'[Len(sync_log')].status = "completed"

\* The records the call ending in this step had fetched
RecordsFetched == IF pc = "upserting" THEN records ELSE <<>>

\* C23: when a sync_entity call returns having fetched at least one record
\* that carries modifiedon, the stored last_timestamp is the greatest
\* modifiedon of the fetched records and records_count is the number of
\* fetched records; when it fetched no record, last_timestamp is unchanged.
TimestampAdvances ==
    [][SyncReturned =>
        LET stamps == {RecordsFetched[i].mod : i \in 1..Len(RecordsFetched)}
                         \ {NULL}
        IN  /\ stamps # {} =>
                 /\ sync_state'[EntityName].last_timestamp \in stamps
                 /\ \A m \in stamps :
                        m <= sync_state'[EntityName].last_timestamp
                 /\ sync_state'[EntityName].records_count
                        = Len(RecordsFetched)
            /\ RecordsFetched = <<>> =>
                 sync_state'[EntityName].last_timestamp = StoredTimestamp]_vars

\* A sync has returned after fetching two records of which the one fetched
\* last is not the one modified last, and a later sync fetched no record
TimestampAdvancesWitness ==
    /\ pc = "idle"
    /\ Len(sync_log) >= 2
    /\ sync_log[Len(sync_log)].status = "completed"
    /\ filter_sent # NULL
    /\ StoredTimestamp = filter_sent
    /\ sync_state[EntityName].records_count >= 2
    /\ \E k \in DOMAIN server :
          /\ server[k].mod = StoredTimestamp
          /\ \E j \in DOMAIN server : j > k /\ server[j].mod < server[k].mod

\* The step ends a sync_entity call, by return or by raise
SyncEnded == pc' = "idle" /\ (SyncStarted \/ pc = "upserting")

\* The step ends a sync_entity call by raise: upsert_batch raised
SyncRaised == SyncEnded /\ lastCall' # <<>> /\ lastCall'[1].raised

\* C24: every sync_entity call opens a _sync_log row with status in_progress;
\* when the call returns the row is completed, when it raises the row is
\* failed, so no log row is in_progress once its call has ended, and
\* _sync_state.state of the entity shows the outcome of the latest call.
LogClosedWithAttempt ==
    /\ [](/\ pc = "idle" =>
               /\ \A i \in 1..Len(sync_log) :
                     sync_log[i].status \in {"completed", "failed"}
               /\ sync_log # <<>> =>
                     sync_state[EntityName].state
                        = sync_log[Len(sync_log)].status
          /\ pc = "upserting" =>
               /\ sync_log # <<>>
               /\ \A i \in 1..Len(sync_log) :
                     sync_log[i].status = "in_progress" <=> i = Len(sync_log)
               /\ sync_state[EntityName].state = "in_progress")
    /\ [][/\ SyncStarted =>
               /\ SubSeq(sync_log', 1, Len(sync_log)) = sync_log
               /\ sync_log'[Len(sync_log')].entity_name = EntityName
          /\ ~SyncStarted => Len(sync_log') = Len(sync_log)
          /\ SyncEnded =>
               sync_log'[Len(sync_log')].status
                  = IF SyncRaised THEN "failed" ELSE "completed"]_vars

\* A sync_entity call has raised after one that returned: the log holds a
\* completed row followed by a failed one
LogClosedWithAttemptWitness ==
    /\ pc = "idle"
    /\ Len(sync_log) >= 2
    /\ sync_log[1].status = "completed"
    /\ sync_log[Len(sync_log)].status = "failed"
    /\ sync_state[EntityName].state = "failed"
    /\ lastCall # <<>>
    /\ lastCall[1].raised

\* ====================================================================
\* Functions called on their own: the database rows and the arguments are
\* drawn in the initial state, one action makes the call.
\* ====================================================================

\* No sync, run or client call is under way
AtRest ==
    /\ server = <<>>
    /\ schemaCols = BaseCols
    /\ tableCols = schemaCols
    /\ now = 1
    /\ table = <<>>
    /\ junction = <<>>
    /\ optionset = <<>>
    /\ sync_state = <<>>
    /\ sync_log = <<>>
    /\ pc = "idle"
    /\ filter_sent = NULL
    /\ records = <<>>
    /\ idx = 1
    /\ added = 0
    /\ updated = 0
    /\ lastCall = <<>>
    /\ changed = FALSE
    /\ noop = FALSE
    /\ OrchOff
    /\ ClientOff

restVars == <<server, schemaCols, tableCols, now, dbVars, sync_state,
              sync_log, runVars, lastCall, changed, noop, orchVars,
              clientVars>>

\* ---------------------------------------------------- verify_references
\* Rows of the referring table (accounts) and of the referenced table
\* (contacts) the verifier may meet
MaxReferrers == 3
MaxReferenced == 2

\* A version of an account: its foreign key _primarycontactid_value (NULL
\* or a contactid) and its valid_to (NULL while active)
ReferrerRow == [fk : {NULL} \cup Keys, valid_to : {NULL, 1}]

\* A version of a contact: its business key and its valid_to
ReferencedRow == [contactid : Keys, valid_to : {NULL, 1}]

SeqsUpTo(S, n) == UNION {[1..m -> S] : m \in 0..n}

\* A join condition that matches active versions only
JoinActiveOnly(t, r) == t.fk = r.contactid /\ r.valid_to = NULL

\* ON t.{fk_column} = r.{referenced_column}
JoinOn(t, r) == t.fk = r.contactid

\* FROM accounts t LEFT JOIN contacts r ON ...: one row per matching pair,
\* and one row with r all NULL for a t that matches no r.  A NULL fk equals
\* nothing.
LeftJoin(ts, rs) ==
    LET matches(i) == {j \in 1..Len(rs) : ts[i].fk # NULL /\ JoinOn(ts[i], rs[j])}
    IN  UNION {IF matches(i) = {}
               THEN {[t |-> i, fk |-> ts[i].fk, r |-> 0, ref |-> NULL]}
               ELSE {[t |-> i, fk |-> ts[i].fk, r |-> j,
                      ref |-> rs[j].contactid] : j \in matches(i)}
               : i \in 1..Len(ts)}

\* WHERE t.fk IS NOT NULL AND r.ref IS NULL GROUP BY t.fk, as the rows
\* <<fk, COUNT(*)>> in the order of fk
DanglingRefs(ts, rs) ==
    LET kept == {x \in LeftJoin(ts, rs) : x.fk # NULL /\ x.ref = NULL}
        groups == SortedSeq({x.fk : x \in kept})
    IN  [g \in 1..Len(groups) |->
            <<groups[g], Cardinality({x \in kept : x.fk = groups[g]})>>]

RECURSIVE SumCounts(_)
SumCounts(rows) ==
    IF rows = <<>> THEN 0 ELSE rows[1][2] + SumCounts(Tail(rows))

\* sample_ids: the first ten group keys
MaxSampleIds == 10

\* verify_references for the graph whose one foreign key is
\* accounts._primarycontactid_value -> contacts.contactid.  An entity whose
\* table is missing is passed over; a foreign key whose referenced table is
\* missing is counted in total_checks and skipped.
VerificationReport(db) ==
    LET dangling_refs == DanglingRefs(db.accounts, db.contacts)
        dangling_count == SumCounts(dangling_refs)
        total_checked == Cardinality({i \in 1..Len(db.accounts) :
                                         db.accounts[i].fk # NULL})
        issue == [table |-> "accounts",
                  fk_column |-> "_primarycontactid_value",
                  referenced_table |-> "contacts",
                  dangling_count |-> dangling_count,
                  total_checked |-> total_checked,
                  sample_ids |-> [g \in 1..Min(Len(dangling_refs), MaxSampleIds)
                                     |-> dangling_refs[g][1]]]
    IN  IF "accounts" \notin db.tables
        THEN [total_checks |-> 0, issues |-> <<>>, total_issues |-> 0]
        ELSE IF "contacts" \notin db.tables \/ dangling_refs = <<>>
        THEN [total_checks |-> 1, issues |-> <<>>, total_issues |-> 0]
        ELSE [total_checks |-> 1, issues |-> <<issue>>,
              total_issues |-> dangling_count]

\* The verifier runs at the end of a run, when the table of every entity
\* found in $metadata exists; the rows are any history the syncs may have
\* left
VerifyInit ==
    /\ AtRest
    /\ given \in [tables : {RunEntitySet},
                  accounts : SeqsUpTo(ReferrerRow, MaxReferrers),
                  contacts : SeqsUpTo(ReferencedRow, MaxReferenced)]
    /\ returned = <<>>

CallVerifyReferences ==
    /\ returned = <<>>
    /\ returned' = <<VerificationReport(given)>>
    /\ UNCHANGED given
    /\ UNCHANGED restVars

VerifyNext == CallVerifyReferences

VerifySpec == VerifyInit /\ [][VerifyNext]_vars

\* The rows of the referring table whose foreign key is not NULL and is the
\* business key of no row of the referenced table, of whatever version
DanglingRows ==
    {i \in 1..Len(given.accounts) :
        /\ given.accounts[i].fk # NULL
        /\ \A j \in 1..Len(given.contacts) :
              given.contacts[j].contactid # given.accounts[i].fk}

\* C25: the verifier reports an issue for the foreign key exactly when some
\* referring row has a non-NULL value that is the business key of no row,
\* active or closed, of the referenced table; rows with a NULL value are not
\* counted, and dangling_count is the number of referring rows with such a
\* value.
DanglingExactly ==
    returned # <<>> =>
        LET report == returned[1]
        IN  /\ (report.issues # <<>>) <=> (DanglingRows # {})
            /\ Len(report.issues) <= 1
            /\ report.total_issues = Cardinality(DanglingRows)
            /\ \A n \in 1..Len(report.issues) :
                  /\ report.issues[n].dangling_count = Cardinality(DanglingRows)
                  /\ report.issues[n].table = "accounts"
                  /\ report.issues[n].referenced_table = "contacts"

\* The verifier has reported one dangling row on a database where another
\* row has a NULL foreign key and a third one points to a contact that has
\* closed versions only
DanglingExactlyWitness ==
    /\ returned # <<>>
    /\ returned[1].issues # <<>>
    /\ returned[1].issues[1].dangling_count = 1
    /\ \E i \in 1..Len(given.accounts) : given.accounts[i].fk = NULL
    /\ \E i \in 1..Len(given.accounts) :
          /\ given.accounts[i].fk # NULL
          /\ i \notin DanglingRows
          /\ \A j \in 1..Len(given.contacts) :
                given.contacts[j].contactid = given.accounts[i].fk
                   => given.contacts[j].valid_to # NULL

\* ------------------------------------------- sync_filtered_entity
\* The entity the filtered syncer is called for
FilteredEntity == "contacts"

\* The rows the local tables may hold: versions of accounts and contacts
LocalRow == [entity : RunEntitySet, id : Keys, fk : {NULL, 1}]

\* The existing IDs are fetched with a timestamp filter whatever the schema
FetchExistingAlways(existing_ids, last_timestamp, has_modifiedon) ==
    existing_ids # {}

\* "if existing_ids and last_timestamp and 'modifiedon' in [c.name ...]"
FetchExisting(existing_ids, last_timestamp, has_modifiedon) ==
    existing_ids # {} /\ last_timestamp # NULL /\ has_modifiedon

\* The requests sync_filtered_entity sends for the IDs, one entry per ID of
\* a batch, with the timestamp of the "modifiedon gt <ts>" condition added to
\* the batch's filter, NULL for none.  No ID, no request: the call returns
\* before it starts.
FilteredRequests(rows, ids, entity, last_timestamp, has_modifiedon) ==
    LET split == SeparateNewAndExistingIds(rows, ids, entity,
                                           last_timestamp # NULL)
        new_ids == split[1]
        existing_ids == split[2]
    IN  {[id |-> id, timestamp_filter |-> NULL] : id \in new_ids}
        \cup (IF FetchExisting(existing_ids, last_timestamp, has_modifiedon)
              THEN {[id |-> id, timestamp_filter |-> last_timestamp] :
                       id \in existing_ids}
              ELSE {})

\* The records the requests return: every requested ID exists upstream, and
\* a request with a timestamp filter returns the record only when its
\* modifiedon is later
FilteredRecords(requests, upstream) ==
    {q.id : q \in {x \in requests :
                      \/ x.timestamp_filter = NULL
                      \/ upstream[x.id] > x.timestamp_filter}}

\* _update_sync_timestamp_from_records after "if all_records": the
\* last_timestamp the entity has once sync_filtered_entity has returned
FilteredTimestamp(all_records, last_timestamp, has_modifiedon, upstream) ==
    LET timestamps == IF has_modifiedon
                      THEN {upstream[id] : id \in all_records} ELSE {}
    IN  IF timestamps = {} THEN last_timestamp
        ELSE CHOOSE m \in timestamps : \A x \in timestamps : x <= m

\* The local tables, the stored timestamp and the schema are what earlier
\* syncs left; the IDs are what extract_filtered_ids found; upstream gives
\* the modifiedon of each contact on the server
FilteredInit ==
    /\ AtRest
    /\ given \in [rows : SUBSET LocalRow,
                  ids : SUBSET Keys,
                  last_timestamp : {NULL, 1, 2},
                  has_modifiedon : BOOLEAN,
                  upstream : [Keys -> 1..2]]
    /\ returned = <<>>

CallSeparateNewAndExistingIds ==
    /\ returned = <<>>
    /\ LET split == SeparateNewAndExistingIds(given.rows, given.ids,
                                              FilteredEntity,
                                              given.last_timestamp # NULL)
       IN  returned' = <<[fn |-> "_separate_new_and_existing_ids",
                          new_ids |-> split[1], existing_ids |-> split[2],
                          requests |-> {},
                          last_timestamp |-> given.last_timestamp]>>
    /\ UNCHANGED given
    /\ UNCHANGED restVars

CallSyncFilteredEntity ==
    /\ returned = <<>>
    /\ LET split == SeparateNewAndExistingIds(given.rows, given.ids,
                                              FilteredEntity,
                                              given.last_timestamp # NULL)
           requests == FilteredRequests(given.rows, given.ids,
                                        FilteredEntity, given.last_timestamp,
                                        given.has_modifiedon)
       IN  returned' = <<[fn |-> "sync_filtered_entity",
                          new_ids |-> split[1], existing_ids |-> split[2],
                          requests |-> requests,
                          last_timestamp |->
                             FilteredTimestamp(
                                FilteredRecords(requests, given.upstream),
                                given.last_timestamp, given.has_modifiedon,
                                given.upstream)]>>
    /\ UNCHANGED given
    /\ UNCHANGED restVars

FilteredNext ==
    \/ CallSeparateNewAndExistingIds
    \/ CallSyncFilteredEntity

FilteredSpec == FilteredInit /\ [][FilteredNext]_vars

\* The given IDs that have at least one row in the entity's local table
PresentLocally ==
    {id \in given.ids :
        \E r \in given.rows : r.entity = FilteredEntity /\ r.id = id}

\* C26: _separate_new_and_existing_ids returns two disjoint sets whose union
\* is the set of IDs it was given; with no last_timestamp every ID is new,
\* otherwise an ID is existing exactly when the entity's local table has a
\* row with that business key.
SeparatePartitions ==
    (returned # <<>> /\ returned[1].fn = "_separate_new_and_existing_ids") =>
        LET new_ids == returned[1].new_ids
            existing_ids == returned[1].existing_ids
        IN  /\ new_ids \cap existing_ids = {}
            /\ new_ids \cup existing_ids = given.ids
            /\ given.last_timestamp = NULL => new_ids = given.ids
            /\ given.last_timestamp # NULL => existing_ids = PresentLocally

\* The partition has put one ID on each side, and an account row with the
\* business key of the new one did not make it existing
SeparatePartitionsWitness ==
    /\ returned # <<>>
    /\ returned[1].fn = "_separate_new_and_existing_ids"
    /\ returned[1].new_ids # {}
    /\ returned[1].existing_ids # {}
    /\ \E r \in given.rows :
          r.entity # FilteredEntity /\ r.id \in returned[1].new_ids

\* sync_filtered_entity has been called and has sent its requests
FilteredSyncDone ==
    returned # <<>> /\ returned[1].fn = "sync_filtered_entity"

\* The timestamp filters the given ID was requested with
FiltersOf(id) ==
    {q.timestamp_filter : q \in {x \in returned[1].requests : x.id = id}}

\* C27: in a filtered sync every ID not yet present locally is requested
\* with no modifiedon condition, and an ID already present locally is
\* requested only with the condition "modifiedon gt <last_timestamp>", and
\* only when a last_timestamp exists and the schema has a modifiedon column.
PresentOnlyIncremental ==
    FilteredSyncDone =>
        \A id \in given.ids :
            IF id \in PresentLocally
            THEN /\ FiltersOf(id) \subseteq {given.last_timestamp} \ {NULL}
                 /\ FiltersOf(id) # {} =>
                       given.last_timestamp # NULL /\ given.has_modifiedon
            ELSE FiltersOf(id) = {NULL}

\* C27 as the code has it: every ID is requested with no modifiedon
\* condition when no last_timestamp is stored, whether or not it is present
\* locally; when one is stored, an ID not present locally is requested with
\* no condition, and one present locally is requested with the condition
\* "modifiedon gt <last_timestamp>" if the schema has a modifiedon column and
\* is not requested otherwise.
ExistingOnlyIncremental ==
    FilteredSyncDone =>
        \A id \in given.ids :
            IF given.last_timestamp = NULL \/ id \notin PresentLocally
            THEN FiltersOf(id) = {NULL}
            ELSE IF given.has_modifiedon
            THEN FiltersOf(id) = {given.last_timestamp}
            ELSE FiltersOf(id) = {}

\* A filtered sync with a stored timestamp has requested a new ID without
\* condition and a present one with the modifiedon condition
ExistingOnlyIncrementalWitness ==
    /\ FilteredSyncDone
    /\ given.last_timestamp # NULL
    /\ \E id \in given.ids : id \notin PresentLocally /\ FiltersOf(id) = {NULL}
    /\ \E id \in given.ids :
          id \in PresentLocally /\ FiltersOf(id) = {given.last_timestamp}

\* -------------------------------------- resolution of the primary key
\* The column names a schema of the entity "account" may list, in the order
\* the schema lists them: a plain column, a column that starts with "_" and
\* ends with "id", another entity's id, the entity's own id, and the key
\* $metadata may declare without listing it as a column
ColumnOrder == <<"name", "_parentid", "parentid", "accountid", "ownerid">>

ColumnUniverse == {ColumnOrder[i] : i \in 1..Len(ColumnOrder)}

\* name.endswith("id") and name.startswith("_") on the names above
EndsWithId(name) == name \in {"_parentid", "parentid", "accountid", "ownerid"}

StartsWithUnderscore(name) == name \in {"_parentid"}

\* [c.name for c in schema.columns]
ColumnNames(columns) == SelectSeq(ColumnOrder, LAMBDA name : name \in columns)

\* f"{entity.name}id"
FallbackPk == "accountid"

\* [name for name in column_names if name.endswith("id") and not
\*  name.startswith("_")]
IdCols(column_names) ==
    SelectSeq(column_names,
              LAMBDA name : EndsWithId(name) /\ ~StartsWithUnderscore(name))

Resolved(pk) == [raised |-> FALSE, pk |-> pk]

ResolutionRaised == [raised |-> TRUE, pk |-> None]

\* entity_sync._determine_actual_primary_key; primary_key is None or <<name>>,
\* record_keys the keys of records[0]
DetermineActualPrimaryKey(primary_key, columns, record_keys) ==
    LET column_names == ColumnNames(columns)
        id_cols == IdCols(column_names)
    IN  IF primary_key # None /\ primary_key[1] \notin columns
        THEN IF FallbackPk \in columns THEN Resolved(<<FallbackPk>>)
             ELSE IF FallbackPk \in record_keys THEN Resolved(<<FallbackPk>>)
             ELSE IF id_cols # <<>> THEN Resolved(<<id_cols[1]>>)
             ELSE ResolutionRaised
        ELSE Resolved(primary_key)

\* FilteredSyncManager._resolve_primary_key
ResolvePrimaryKey(primary_key, columns) ==
    LET column_names == ColumnNames(columns)
        id_cols == IdCols(column_names)
    IN  IF primary_key = None THEN ResolutionRaised
        ELSE IF primary_key[1] \in columns THEN Resolved(primary_key)
        ELSE IF FallbackPk \in columns THEN Resolved(<<FallbackPk>>)
        ELSE IF id_cols # <<>> THEN Resolved(<<id_cols[1]>>)
        ELSE ResolutionRaised

\* The schema $metadata gives for the entity (its Key element may be absent,
\* its declared key may not be among its properties) and the keys of the
\* first record of the response
ResolveInit ==
    /\ AtRest
    /\ given \in [primary_key : {None, <<"accountid">>, <<"ownerid">>},
                  columns : {c \in SUBSET ColumnUniverse : "name" \in c},
                  record_keys : {{"name"}, {"name", "accountid"}}]
    /\ returned = <<>>

\* Both syncers resolve the key of the same schema
CallResolvers ==
    /\ returned = <<>>
    /\ returned' = <<[unfiltered |->
                         DetermineActualPrimaryKey(given.primary_key,
                                                   given.columns,
                                                   given.record_keys),
                      filtered |->
                         ResolvePrimaryKey(given.primary_key, given.columns)]>>
    /\ UNCHANGED given
    /\ UNCHANGED restVars

ResolveNext == CallResolvers

ResolveSpec == ResolveInit /\ [][ResolveNext]_vars

\* The effective key as the claim gives it: the declared key when it is a
\* schema column, else <entity>id, else the first *id column that does not
\* start with "_", else a failure
EffectiveKey ==
    LET id_cols == IdCols(ColumnNames(given.columns))
    IN  IF given.primary_key # None /\ given.primary_key[1] \in given.columns
        THEN Resolved(given.primary_key)
        ELSE IF FallbackPk \in given.columns THEN Resolved(<<FallbackPk>>)
        ELSE IF id_cols # <<>> THEN Resolved(<<id_cols[1]>>)
        ELSE ResolutionRaised

\* C28: for every schema the unfiltered and the filtered syncer resolve the
\* same effective primary-key column: the declared key when it is a schema
\* column, else <entity>id, else an *id column not starting with "_", and
\* both fail when none of these exists.
SameEffectiveKey ==
    returned # <<>> =>
        /\ returned[1].unfiltered = returned[1].filtered
        /\ returned[1].filtered = EffectiveKey

\* ------------------------------------------------ claims on schema drift
\* The projected schema has a column the local table lacks: the comparer
\* reports missing_column
MissingColumn == schemaCols \ tableCols # {}

\* C29: when the projected schema has a column that the local table lacks,
\* the records of the entity are still stored: each upsert of such a sync
\* returns, and leaves an active row of the record whose json_response
\* holds the value of the missing column.
MissingColumnPreserved ==
    [][(pc = "upserting" /\ MissingColumn /\ lastCall' # <<>>) =>
        /\ ~lastCall'[1].raised
        /\ \E i \in 1..Len(table') :
              /\ table'[i].valid_to = NULL
              /\ BusinessKey(table'[i])
                    = DictGet(lastCall'[1].api_record, KeyId)
              /\ KeyExtra \in DictKeys(table'[i].json_response)
              /\ DictGet(table'[i].json_response, KeyExtra)
                    = DictGet(lastCall'[1].api_record, KeyExtra)]_vars

\* --------------------------------------------- claims on permit waiting
\* The calls of fetch_with_retry that wait for a permit of the semaphore
WaitingForPermit == {t \in DOMAIN calls : calls[t].pc = "acquire"}

\* C30: a call of fetch_with_retry never waits forever for a permit, so it
\* returns or raises once its requests get their responses: whenever a call
\* waits for a permit, a permit is free or is held by a call that does not
\* itself wait for one and gives it back when its request is answered.
PermitObtainable ==
    WaitingForPermit # {} =>
        \/ permits > 0
        \/ \E t \in DOMAIN calls :
              calls[t].held > 0 /\ t \notin WaitingForPermit

\* ------------------------------- sync_entity from the fetch to the watermark
\* The records one fetch may return
MaxBatch == 2

\* A record of the entity "account" as the server sends it: its own id is
\* always set, the owner may be null, modifiedon is set
FetchedRecord == [accountid : Keys, ownerid : {NULL, 1}, modifiedon : 1..2]

\* The keys of a record: the server sends every attribute, null or not
RecordKeys == {"name", "accountid", "ownerid", "modifiedon"}

\* api_record.get(primary_key)
RecordGet(rec, primary_key) ==
    IF primary_key = None THEN NULL
    ELSE CASE primary_key[1] = "accountid" -> rec.accountid
           [] primary_key[1] = "ownerid" -> rec.ownerid
           [] OTHER -> NULL

\* "if not entity_id: continue" of upsert_batch
SkipRecord(entity_id) == entity_id = NULL

\* upsert_batch on an empty table: [raised, stored], stored being the
\* positions of the records that got a row.  A record with no value for the
\* key is passed over; the SELECT of upsert_scd2 raises when the key is not a
\* column of the table.
UpsertBatch(primary_key, columns, recs) ==
    LET kept == {i \in 1..Len(recs) : ~SkipRecord(RecordGet(recs[i], primary_key))}
    IN  IF kept # {} /\ primary_key[1] \notin columns
        THEN [raised |-> TRUE, stored |-> {}]
        ELSE [raised |-> FALSE, stored |-> kept]

\* sync_entity after a fetch that returned recs: the key is resolved, the
\* batch is upserted, the watermark is stored; [raised, stored,
\* last_timestamp, records_count]
StoreFetched(primary_key, columns, recs) ==
    LET actual_pk == DetermineActualPrimaryKey(primary_key, columns, RecordKeys)
        batch == UpsertBatch(actual_pk.pk, columns, recs)
        timestamps == {recs[i].modifiedon : i \in 1..Len(recs)} \ {NULL}
    IN  IF actual_pk.raised \/ batch.raised
        THEN [raised |-> TRUE, stored |-> batch.stored,
              last_timestamp |-> NULL, records_count |-> 0]
        ELSE [raised |-> FALSE, stored |-> batch.stored,
              last_timestamp |-> IF timestamps = {} THEN NULL
                                 ELSE CHOOSE m \in timestamps :
                                         \A x \in timestamps : x <= m,
              records_count |-> IF timestamps = {} THEN 0 ELSE Len(recs)]

\* The schema $metadata gives for the entity and the records of a first
\* fetch
StoreInit ==
    /\ AtRest
    /\ given \in [primary_key : {None, <<"accountid">>, <<"ownerid">>},
                  columns : {c \in SUBSET ColumnUniverse : "name" \in c},
                  records : SeqsUpTo(FetchedRecord, MaxBatch) \ {<<>>}]
    /\ returned = <<>>

CallStoreFetched ==
    /\ returned = <<>>
    /\ returned' = <<StoreFetched(given.primary_key, given.columns,
                                  given.records)>>
    /\ UNCHANGED given
    /\ UNCHANGED restVars

StoreNext == CallStoreFetched

StoreSpec == StoreInit /\ [][StoreNext]_vars

\* C31: whenever a sync stores a last_timestamp for the entity, every record
\* fetched in that sync has a row in the entity table: no fetched record is
\* left unstored while the watermark moves to or past its modifiedon.
WatermarkCoversStored ==
    (returned # <<>> /\ returned[1].last_timestamp # NULL) =>
        \A i \in 1..Len(given.records) :
            given.records[i].modifiedon <= returned[1].last_timestamp
               => i \in returned[1].stored

\* ------------------------------------------------ claims on the watermark
\* C32: across successive successful syncs of the same entity, unfiltered or
\* filtered, the stored last_timestamp never decreases: the timestamp a
\* filtered sync leaves is not earlier than the one it found.
WatermarkMonotoneFiltered ==
    (FilteredSyncDone /\ given.last_timestamp # NULL) =>
        returned[1].last_timestamp >= given.last_timestamp

\* The records_count column of the entity's _sync_state row
StoredCount ==
    IF EntityName \in DOMAIN sync_state
    THEN sync_state[EntityName].records_count
    ELSE 0

\* C33: when an entity sync fails, the stored last_timestamp and
\* records_count are what they were before the attempt: no step of a sync
\* other than its successful end changes them, so marking the state
\* in_progress or failed does not overwrite them.
FailureKeepsWatermark ==
    [][~SyncReturned =>
        /\ GetLastSyncTimestamp(sync_state', EntityName) = StoredTimestamp
        /\ (EntityName \in DOMAIN sync_state' =>
               sync_state'[EntityName].records_count = StoredCount)]_vars

\* A sync has failed after an earlier one had stored a watermark, which is
\* still there
FailureKeepsWatermarkWitness ==
    /\ pc = "idle"
    /\ Len(sync_log) >= 2
    /\ sync_log[Len(sync_log)].status = "failed"
    /\ sync_state[EntityName].state = "failed"
    /\ StoredTimestamp # NULL
    /\ StoredCount >= 1

\* ------------------------------------- upsert_batch on delivered versions
MaxDelivered == 3

\* A version of a record as the server delivers it: modifiedon is the
\* server's value, in whatever order the pages bring the versions
DeliveredRecord == [k : Keys, name : Names, cats : Selections, mod : Times]

\* upsert_batch from record i on: each record is projected, upserted with
\* upsert_scd2 and its option sets are populated; [table, optionset,
\* junction, added, updated, raised]
RECURSIVE UpsertBatchLoop(_, _, _, _)
UpsertBatchLoop(acc, recs, i, now_) ==
    IF i > Len(recs) \/ acc.raised THEN acc
    ELSE LET cols == BaseCols \cup {"modifiedon"}
             api_record == ApiRecord(recs[i].k, recs[i], 1, FALSE, TRUE, FALSE)
             entity_id == DictGet(api_record, KeyId)
             detected == DetectFromRecord(api_record)
             record == BuildRecord(cols, api_record, detected, now_)
             up == UpsertScd2(acc.table, PrimaryKey, record, cols)
             aux == IF detected # <<>> /\ ~up.raised
                    THEN PopulateDetectedOptionSets(
                             [optionset |-> acc.optionset,
                              junction |-> acc.junction],
                             detected, entity_id, up.result, now_)
                    ELSE [optionset |-> acc.optionset,
                          junction |-> acc.junction]
         IN  UpsertBatchLoop(
                 [table |-> up.table,
                  optionset |-> aux.optionset,
                  junction |-> aux.junction,
                  added |-> IF up.result.is_new_entity /\ ~up.raised
                            THEN acc.added + 1 ELSE acc.added,
                  updated |-> IF /\ ~up.result.is_new_entity
                                 /\ up.result.version_created
                                 /\ ~up.raised
                              THEN acc.updated + 1 ELSE acc.updated,
                  raised |-> up.raised],
                 recs, i + 1, now_)

\* The versions a fetch delivers and the clock of the run, on empty tables
HistoryInit ==
    /\ AtRest
    /\ given \in [records : SeqsUpTo(DeliveredRecord, MaxDelivered) \ {<<>>},
                  now : Times]
    /\ returned = <<>>

CallUpsertBatch ==
    /\ returned = <<>>
    /\ returned' = <<UpsertBatchLoop(
                        [table |-> <<>>, optionset |-> <<>>,
                         junction |-> <<>>, added |-> 0, updated |-> 0,
                         raised |-> FALSE],
                        given.records, 1, given.now)>>
    /\ UNCHANGED given
    /\ UNCHANGED restVars

HistoryNext == CallUpsertBatch

HistorySpec == HistoryInit /\ [][HistoryNext]_vars

\* C35: every closed row of the entity table has valid_from <= valid_to,
\* whatever the order of the modifiedon values of the versions the server
\* delivers for one business key.
ClosedRowsOrdered ==
    returned # <<>> =>
        \A i \in 1..Len(returned[1].table) :
           returned[1].table[i].valid_to # NULL =>
               returned[1].table[i].valid_from <= returned[1].table[i].valid_to

\* ------------------------------------------------ frame of upsert_scd2
\* The rows of the table that hold the business key, in row_id order
RowsWithKey(tbl, k) == SelectSeq(tbl, LAMBDA r : BusinessKey(r) = k)

\* C36: a call of upsert_scd2 for business key k reads and changes only rows
\* of k: every row of another business key keeps its columns, payload,
\* valid_from, valid_to and sync_time, and the outcome of the call is the one
\* it has on the rows of k alone.
UpsertFrame ==
    [][lastCall' # <<>> =>
        LET k == lastCall'[1].result.business_key_value
        IN  /\ Len(table') >= Len(table)
            /\ \A i \in 1..Len(table) :
                  BusinessKey(table[i]) # k => table'[i] = table[i]
            /\ \A i \in (Len(table) + 1)..Len(table') :
                  BusinessKey(table'[i]) = k
            /\ UpsertScd2(RowsWithKey(table, k), PrimaryKey,
                          lastCall'[1].record, tableCols).result
                   = lastCall'[1].result]_vars

\* upsert_scd2 has closed a version of one key and inserted its successor
\* while the table holds an active row of another key
UpsertFrameWitness ==
    /\ lastCall # <<>>
    /\ ~lastCall[1].raised
    /\ ~lastCall[1].result.is_new_entity
    /\ lastCall[1].result.version_created
    /\ \E i \in 1..Len(table) :
          /\ BusinessKey(table[i]) # lastCall[1].result.business_key_value
          /\ table[i].valid_to = NULL

\* ------------------------------------------- extract_filtered_ids alone
\* C37: extract_filtered_ids is a query: called on the database as the
\* filtered loop finds it, it returns, for each filtered entity, exactly the
\* union of the distinct non-null values of every referrer column that
\* points at the entity (and, being a function of the rows, writes nothing).
ExtractReturnsUnion ==
    rpc = "filtered" =>
        LET out == ExtractFilteredIds(stored, Filtered)
        IN  /\ ~out.raised
            /\ \A i \in 1..Len(Filtered) :
                  out.ids[Filtered[i]] = ReferencedIds(Filtered[i])

\* ------------------------------- the schema gate on a table the tool made
MaxFirstFetch == 1

\* SYSTEM_COLUMNS of validator.py
SYSTEM_COLUMNS ==
    {"row_id", "json_response", "sync_time", "valid_from", "valid_to"}

\* Edm types of the property "name" in the metadata; the last one is not in
\* the type map
EdmTypes ==
    {"Edm.String", "Edm.Int32", "Edm.Decimal", "Edm.Boolean", "Edm.Binary",
     "Edm.Stream"}

\* The Type attribute of a property: the id columns are Edm.Guid
EdmTypeOf(name, name_type) == IF name = "name" THEN name_type ELSE "Edm.Guid"

\* EDM_TYPE_MAP_SQLITE.get(edm_type, "TEXT")
EdmTypeMapSqlite(edm_type) ==
    CASE edm_type \in {"Edm.String", "Edm.DateTimeOffset", "Edm.Date",
                       "Edm.TimeOfDay", "Edm.Guid"} -> "TEXT"
      [] edm_type \in {"Edm.Int16", "Edm.Int32", "Edm.Int64", "Edm.Boolean"}
             -> "INTEGER"
      [] edm_type \in {"Edm.Decimal", "Edm.Double"} -> "REAL"
      [] edm_type = "Edm.Binary" -> "BLOB"
      [] OTHER -> "TEXT"

\* map_edm_to_db_type for target_db "sqlite"
MapEdmToDbType(edm_type, is_option_set) ==
    IF is_option_set /\ edm_type = "Edm.String" THEN "INTEGER"
    ELSE EdmTypeMapSqlite(edm_type)

\* SQLITE_TYPE_ALIASES
SQLITE_TYPE_ALIASES ==
    [TEXT |-> {"VARCHAR", "CHAR", "NVARCHAR", "NCHAR", "CLOB"},
     INTEGER |-> {"INT", "TINYINT", "SMALLINT", "MEDIUMINT", "BIGINT"},
     REAL |-> {"DOUBLE", "FLOAT", "NUMERIC", "DECIMAL"},
     BLOB |-> {"BLOB", "BINARY", "VARBINARY"}]

\* normalize_db_type for target_db "sqlite", on an upper-case type without a
\* length: the canonical type the name is an alias of, else the name itself
NormalizeDbType(db_type) ==
    IF \E canonical_type \in DOMAIN SQLITE_TYPE_ALIASES :
          db_type \in SQLITE_TYPE_ALIASES[canonical_type]
    THEN CHOOSE canonical_type \in DOMAIN SQLITE_TYPE_ALIASES :
            db_type \in SQLITE_TYPE_ALIASES[canonical_type]
    ELSE db_type

\* MetadataParser._parse_entity_type without option-set configuration: the
\* TableSchema [columns: name -> db_type, primary_key]
ParseEntityType(primary_key, columns, name_type) ==
    [columns |-> [c \in columns |->
                    MapEdmToDbType(EdmTypeOf(c, name_type), FALSE)],
     primary_key |-> primary_key]

\* generate_create_table_sql with the four special columns, as the column
\* definitions of the table it creates: name -> [type, pk]
GenerateCreateTableSql(schema) ==
    ("row_id" :> [type |-> "INTEGER", pk |-> TRUE])
    @@ [c \in DOMAIN schema.columns |->
           [type |-> schema.columns[c], pk |-> FALSE]]
    @@ [c \in SYSTEM_COLUMNS \ {"row_id"} |-> [type |-> "TEXT", pk |-> FALSE]]

\* DatabaseSchemaQuery._query_sqlite_schemas for one table: PRAGMA table_info
\* gives each column's declared type and the primary-key column
QuerySqliteSchema(column_defs) ==
    [columns |-> [c \in DOMAIN column_defs |-> column_defs[c].type],
     primary_key |-> IF \E c \in DOMAIN column_defs : column_defs[c].pk
                     THEN <<CHOOSE c \in DOMAIN column_defs : column_defs[c].pk>>
                     ELSE None]

\* _filter_system_columns(schema, expected_pk, singular_entity_name) for the
\* entity "account"
FilterSystemColumns(schema, expected_pk) ==
    LET filtered_columns ==
            [c \in DOMAIN schema.columns \ SYSTEM_COLUMNS |-> schema.columns[c]]
        filtered_pk ==
            IF schema.primary_key # None
               /\ schema.primary_key[1] \in SYSTEM_COLUMNS
            THEN IF expected_pk # None
                    /\ expected_pk[1] \in DOMAIN filtered_columns
                 THEN expected_pk
                 ELSE IF FallbackPk \in DOMAIN filtered_columns
                 THEN <<FallbackPk>>
                 ELSE None
            ELSE schema.primary_key
    IN  [columns |-> filtered_columns, primary_key |-> filtered_pk]

\* _adjust_phantom_pk
AdjustPhantomPk(dv_schema, db_schema_filtered) ==
    IF /\ dv_schema.primary_key # None
       /\ dv_schema.primary_key[1] \notin DOMAIN dv_schema.columns
       /\ db_schema_filtered.primary_key = <<FallbackPk>>
    THEN [dv_schema EXCEPT !.primary_key = <<FallbackPk>>]
    ELSE dv_schema

\* SchemaComparer._compare_columns: the columns reported as type_mismatch
TypeMismatches(dv_schema, db_schema) ==
    {c \in DOMAIN dv_schema.columns \cap DOMAIN db_schema.columns :
        NormalizeDbType(dv_schema.columns[c])
            # NormalizeDbType(db_schema.columns[c])}

\* SchemaComparer._compare_primary_keys: a pk_mismatch is reported
ComparePrimaryKeys(dv_schema, db_schema) ==
    dv_schema.primary_key # db_schema.primary_key

\* The "Compare schemas" part of _validate_entity_schema, for an entity
\* whose table exists: the issue types of the differences of severity "error"
CompareExistingTable(dv_schema, db_schema) ==
    LET db_schema_filtered ==
            FilterSystemColumns(db_schema, dv_schema.primary_key)
        dv_schema_adjusted == AdjustPhantomPk(dv_schema, db_schema_filtered)
        issues ==
            (IF TypeMismatches(dv_schema_adjusted, db_schema_filtered) # {}
             THEN {"type_mismatch"} ELSE {})
            \cup (IF ComparePrimaryKeys(dv_schema_adjusted, db_schema_filtered)
                  THEN {"pk_mismatch"} ELSE {})
    IN  {issue_type \in issues : SeverityOf(issue_type) = "error"}

\* The metadata of the entity "account" (no option-set configuration) and
\* the records its first fetch returns, on an empty database.  The entity
\* type may have no Key element of its own, and the key it names may be
\* "ownerid" without a property of that name; a key named "accountid" is a
\* property.
GateInit ==
    /\ AtRest
    /\ given \in [primary_key : {None, <<"accountid">>, <<"ownerid">>},
                  columns : {c \in SUBSET ColumnUniverse : "name" \in c},
                  name_type : EdmTypes,
                  records : SeqsUpTo(FetchedRecord, MaxFirstFetch)]
    /\ given.primary_key = <<"accountid">> => "accountid" \in given.columns
    /\ returned = <<>>

\* The first run: the table is missing, so the entity is valid and
\* initialize_tables creates the table; sync_entity completes at once on an
\* empty fetch and otherwise resolves the key, upserts and stores the
\* watermark
FirstRun ==
    /\ returned = <<>>
    /\ LET schema == ParseEntityType(given.primary_key, given.columns,
                                     given.name_type)
           synced == \/ given.records = <<>>
                     \/ ~StoreFetched(given.primary_key, given.columns,
                                      given.records).raised
       IN  returned' = <<[table |-> GenerateCreateTableSql(schema),
                          synced |-> synced]>>
    /\ UNCHANGED given
    /\ UNCHANGED restVars

\* The next run validates the table against the same metadata; an error
\* difference makes run_sync_workflow return before any sync
SecondRunValidates ==
    /\ Len(returned) = 1
    /\ LET dv_schema == ParseEntityType(given.primary_key, given.columns,
                                        given.name_type)
           db_schema == QuerySqliteSchema(returned[1].table)
       IN  returned' = Append(returned,
                              [errors |-> CompareExistingTable(dv_schema,
                                                               db_schema)])
    /\ UNCHANGED given
    /\ UNCHANGED restVars

GateNext == FirstRun \/ SecondRunValidates

GateSpec == GateInit /\ [][GateNext]_vars

\* C38: a table the tool created from given metadata passes the schema gate
\* of the next run against the same metadata: after a first run that synced
\* the entity successfully, the second run finds no type_mismatch and no
\* pk_mismatch on the entity's table.
CreatedTablePassesGate ==
    (Len(returned) = 2 /\ returned[1].synced) => returned[2].errors = {}

====
